---- MODULE Spec2Model ----
(***************************************************************************)
(* Delivery queue, poll task and drip scheduler of the multi-tenant        *)
(* WhatsApp microservice (src/index.ts, src/queue/queue.ts,                *)
(* src/whatsapp/sendMessage.ts, src/supabase/*.ts), its webhook dispatcher *)
(* (src/webhooks/notify.ts) and its SSE broadcaster                        *)
(* (src/events/broadcaster.ts).                                            *)
(*                                                                         *)
(* Every await of the two background tasks is a separate step, so that     *)
(* ticks, storage answers, driver answers and connection events interleave *)
(* the way the Node event loop lets them.  The storage, the driver and the *)
(* tenant lookup are the environment: each of their answers is a           *)
(* nondeterministic choice between success and failure.                    *)
(***************************************************************************)
EXTENDS Integers, Sequences, FiniteSets, Bags, TLC

\* ------------------------------------------------------------------------
\* Bounds of the model and constants of the program
\* ------------------------------------------------------------------------

\* number of clock steps the timed specification follows
MaxClock == 5

\* length of one clock step, in milliseconds (granularity of the model's time)
TimeStep == 10000

\* config.queue.sendIntervalMs
sendIntervalMs == 20000

\* config.queue.maxRetries as shipped
maxRetriesDefault == 3

\* the retry ceilings the model runs with: none, and the shipped one
RetryCeilings == {0, maxRetriesDefault}

\* .limit(50) of getQueuedMessages
QueryLimit == 50

Sessions == {"s1", "s2"}

Messages == {"A", "B", "C", "D", "E"}

\* session_id column of the stored record
SessionOf(m) == IF m = "D" THEN "s2" ELSE "s1"

\* the recipient fields of the stored record:
\*   "pn"   a phone number (or a phone-number jid): sendMessage resolves its LID first
\*   "lid"  a jid that is not a phone-number jid: sent as it is
\*   "none" neither jid nor phone_number is set
RecipientOf(m) ==
  CASE m = "A" -> "pn"
    [] m \in {"B", "C", "D"} -> "lid"
    [] OTHER -> "none"

NoMsg == [id |-> "-", retries |-> 0]

NoTime == 0 - 1

\* error_message column: not written, the text the poll writes for a record
\* without recipient, and the message of the error a send attempt threw
NoReason == ""
NoRecipientReason == "No recipient identifier provided"
SendErrorReason == "error.message"

VARIABLES
  maxRetries,     \* config.queue.maxRetries
  status,         \* storage: status column of each message record ("NONE" = no record)
  created,        \* storage: per session, the record ids in created_at order
  connected,      \* SessionManager: sessions.get(id).connected
  queues,         \* MessageQueue.queues
  processedIds,   \* MessageQueue.processedIds
  pollingLocks,   \* index.ts pollingLocks
  sendingLocks,   \* index.ts sendingLocks
  pollPc,         \* position of the poll tick of each session
  pollList,       \* the records of the poll's snapshot not yet handled
  sendPc,         \* position of the send tick of each session
  flight,         \* the message the send tick of each session holds
  now,            \* the clock (ms)
  nextSend,       \* earliest time the send timer of each session fires next
  \* history
  attempts,       \* number of socket.sendMessage calls per message id
  markCalled,     \* ids markMessageSent or markMessageFailed was called for
  markedSent,     \* ids markMessageSent was applied to
  markedFailed,   \* ids markMessageFailed was applied to
  failReason,     \* storage: error_message column written by markMessageFailed
  admitOrder,     \* per session, the ids in the order enqueue admitted them
  rejected,       \* queued ids for which a further enqueue call was refused
  completed,      \* per session, the ids in the order markMessageSent was applied
  sendTimes,      \* per session, the times of the last two socket.sendMessage calls
  pollRunning,    \* per session, the pollQueuedMessages calls past their guard
  sendRunning     \* per session, the processDripQueue calls past their guards

deliveryVars == <<maxRetries, status, created, connected, queues, processedIds,
                  pollingLocks, sendingLocks, pollPc, pollList, sendPc, flight,
                  now, nextSend, attempts, markCalled, markedSent, markedFailed,
                  failReason, admitOrder, rejected, completed, sendTimes,
                  pollRunning, sendRunning>>

VARIABLES
  \* notifyTenant (src/webhooks/notify.ts)
  hookPc,         \* position of the call: "idle", "sleep", "fetch", "done"
  hookArgs,       \* the arguments of the call, and who made it
  attempt,        \* the loop variable
  httpCalls,      \* the fetch calls made, oldest first
  waits,          \* the sleeps made (ms), oldest first
  answers,        \* the answers the fetch calls got, oldest first
  hookResult      \* how the call ended

hookVars == <<hookPc, hookArgs, attempt, httpCalls, waits, answers, hookResult>>

VARIABLES
  \* the SSE broadcaster (src/events/broadcaster.ts) and its viewers
  sseClients,     \* the map sseClients: session id -> viewers in insertion order
  conn,           \* per viewer, the state of its response stream
  received,       \* per viewer, the frames written to its stream
  sseError        \* an exception has left a function of the broadcaster

viewVars == <<sseClients, conn, received, sseError>>

VARIABLES
  \* timer ticks that returned at a guard (src/index.ts 58-60, 98-104)
  skipped         \* the pairs <<session, guard>> at which a tick has returned

tickVars == <<skipped>>

VARIABLES
  \* SessionManager (src/whatsapp/SessionManager.ts), the session routes and
  \* startService (src/index.ts)
  sessions,       \* the map sessions: session id -> its SessionData (by socket number)
  sockets,        \* the sockets made so far, each with the SessionData made with it
  creds,          \* per session, the credentials stored under its authPath
  tasks,          \* the async calls in progress, each at its pending await
  timers,         \* the sessions startService has set the two intervals for
  serving,        \* the HTTP server listens (after the startup loop)
  booted,         \* the sessions the startup loop has reached
  dbRow,          \* per session, tenant_sessions holds a row for it
  commands,       \* number of operator requests accepted so far
  socketCap,      \* number of sockets the model lets the manager make
  \* history
  deleted,        \* per session, deleteSession has completed and no create followed
  logoutEnded,    \* per session, handleLogoutAndRegenerate has ended; no command or loss since
  losses          \* per session, recoverable link losses in a row

VARIABLES
  \* sendWebhook (src/whatsapp/SessionManager.ts 596-611)
  tenantUrl,      \* per session, its tenant has a webhook URL
  webhooks        \* the sendWebhook calls in progress, each at its pending await

dispatchVars == <<tenantUrl, webhooks>>

sessVars == <<sessions, sockets, creds, tasks, timers, serving, booted, dbRow,
              commands, socketCap, deleted, logoutEnded, losses, dispatchVars>>

VARIABLES
  \* the messages.upsert handler (src/whatsapp/SessionManager.ts 198-315)
  upserts,        \* per handler run, the messages of its batch still to handle and its pending await
  arrived,        \* the inbound messages the driver has delivered so far
  stored,         \* the inbound messages insertIncomingMessage has stored
  \* history
  storeFailed,    \* the inbound messages whose insert threw
  fanout,         \* the inbound messages broadcastMessageToSSE was called for
  hooked          \* the inbound messages sendWebhook was called for

inboundVars == <<upserts, arrived, stored, storeFailed, fanout, hooked>>

\* the state the delivery tasks do not write
sideVars == <<hookVars, viewVars, tickVars, sessVars, inboundVars>>

\* the state notifyTenant does not write, the broadcaster, the session manager
hookRest == <<deliveryVars, viewVars, tickVars, sessVars, inboundVars>>
viewRest == <<deliveryVars, hookVars, tickVars, sessVars, inboundVars>>
sessRest == <<deliveryVars, hookVars, viewVars, tickVars, inboundVars>>

vars == <<deliveryVars, sideVars>>

storeVars == <<status, created>>
pollVars == <<pollingLocks, pollPc, pollList, pollRunning>>
sendVars == <<sendingLocks, sendPc, flight, sendRunning>>
timeVars == <<now, nextSend>>
queueHist == <<admitOrder, rejected>>
histVars == <<attempts, markCalled, markedSent, markedFailed, failReason,
              completed, sendTimes>>

\* ------------------------------------------------------------------------
\* MessageQueue (src/queue/queue.ts)
\* ------------------------------------------------------------------------

QueueIds(q) == [i \in 1..Len(q) |-> q[i].id]

InQueue(q, id) == \E i \in 1..Len(q) : q[i].id = id

\* enqueue without the scan of the queue for the id
AdmitsWithoutQueueScan(qs, pids, sid, msg) ==
  msg.id \notin pids

\* enqueue without the processedIds check
AdmitsProcessedIds(qs, pids, sid, msg) ==
  ~InQueue(qs[sid], msg.id)

\* enqueue(message): TRUE when the message is pushed
Admits(qs, pids, sid, msg) ==
  /\ msg.id \notin pids
  /\ ~InQueue(qs[sid], msg.id)

\* enqueue(message): the queues afterwards
Enqueue(qs, pids, sid, msg) ==
  IF Admits(qs, pids, sid, msg)
    THEN [qs EXCEPT ![sid] = Append(@, msg)]
    ELSE qs

\* dequeue that pops the newest message (pop instead of shift)
DequeueNewest(qs, sid) ==
  IF Len(qs[sid]) = 0 THEN NoMsg ELSE qs[sid][Len(qs[sid])]

\* dequeue(sessionId): the message returned (NoMsg for null)
DequeueMsg(qs, sid) ==
  IF Len(qs[sid]) = 0 THEN NoMsg ELSE Head(qs[sid])

\* dequeue(sessionId): the queues afterwards
DequeueRest(qs, sid) ==
  IF Len(qs[sid]) = 0 THEN qs ELSE [qs EXCEPT ![sid] = Tail(@)]

\* dequeue that does not record the id in processedIds
DequeueForgetsId(qs, pids, sid) ==
  pids

\* dequeue(sessionId): processedIds afterwards
DequeueProcessed(qs, pids, sid) ==
  IF Len(qs[sid]) = 0 THEN pids ELSE pids \cup {Head(qs[sid]).id}

isQueueEmpty(qs, sid) == Len(qs[sid]) = 0

\* ------------------------------------------------------------------------
\* Storage (src/supabase/*.ts)
\* ------------------------------------------------------------------------

Min(a, b) == IF a < b THEN a ELSE b

\* getQueuedMessages(sessionId): status QUEUED, created_at ascending, limit 50
getQueuedMessages(sid) ==
  LET IsQueued(m) == status[m] = "QUEUED"
      all == SelectSeq(created[sid], IsQueued)
  IN SubSeq(all, 1, Min(Len(all), QueryLimit))

\* a tenant inserts a record with status QUEUED (README, Automatic Drip Mode)
InsertQueued(m) ==
  /\ status[m] = "NONE"
  /\ status' = [status EXCEPT ![m] = "QUEUED"]
  /\ created' = [created EXCEPT ![SessionOf(m)] = Append(@, m)]
  /\ UNCHANGED <<maxRetries, sideVars, connected, queues, processedIds, pollVars,
                 sendVars, timeVars, histVars, queueHist>>

\* ------------------------------------------------------------------------
\* Connection events (src/whatsapp/SessionManager.ts)
\* ------------------------------------------------------------------------

\* connection.update with connection === 'open'
ConnectionOpen(s) ==
  /\ ~connected[s]
  /\ connected' = [connected EXCEPT ![s] = TRUE]
  /\ UNCHANGED <<maxRetries, sideVars, storeVars, queues, processedIds, pollVars,
                 sendVars, timeVars, histVars, queueHist>>

\* connection.update with connection === 'close'
ConnectionClose(s) ==
  /\ connected[s]
  /\ connected' = [connected EXCEPT ![s] = FALSE]
  /\ UNCHANGED <<maxRetries, sideVars, storeVars, queues, processedIds, pollVars,
                 sendVars, timeVars, histVars, queueHist>>

\* isConnected that answers true for every session
isConnectedAlways(s) == TRUE
isConnected(s) == connected[s]

\* ------------------------------------------------------------------------
\* Poll task: pollSupabaseForMessages (src/index.ts)
\* ------------------------------------------------------------------------

\* admitOrder after enqueue(message)
Admitted(adm, qs, pids, sid, msg) ==
  IF Admits(qs, pids, sid, msg)
    THEN [adm EXCEPT ![sid] = Append(@, msg.id)]
    ELSE adm

\* rejected after enqueue(message): the id is already in the queue
Rejected(rej, qs, pids, sid, msg) ==
  IF InQueue(qs[sid], msg.id) /\ msg.id \notin pids THEN rej \cup {msg.id} ELSE rej

\* the poll loop without the check of the recipient: every record is enqueued
RECURSIVE PollRunAdmitsAll(_, _, _, _)
PollRunAdmitsAll(list, qs, adm, rej) ==
  IF list = <<>>
    THEN [q |-> qs, adm |-> adm, rej |-> rej, rest |-> <<>>]
    ELSE LET m == Head(list)
             queuedMessage == [id |-> m, retries |-> 0]
         IN PollRunAdmitsAll(Tail(list),
                             Enqueue(qs, processedIds, SessionOf(m), queuedMessage),
                             Admitted(adm, qs, processedIds, SessionOf(m), queuedMessage),
                             Rejected(rej, qs, processedIds, SessionOf(m), queuedMessage))

\* the for loop over the fetched records, run up to its next await: records
\* with a recipient are enqueued with retries 0; the loop stops in front of
\* the first record without recipient (await markMessageFailed) or at the end
RECURSIVE PollRun(_, _, _, _)
PollRun(list, qs, adm, rej) ==
  IF list = <<>>
    THEN [q |-> qs, adm |-> adm, rej |-> rej, rest |-> <<>>]
    ELSE LET m == Head(list)
             queuedMessage == [id |-> m, retries |-> 0]
         IN IF RecipientOf(m) = "none"
              THEN [q |-> qs, adm |-> adm, rej |-> rej, rest |-> list]
              ELSE PollRun(Tail(list),
                           Enqueue(qs, processedIds, SessionOf(m), queuedMessage),
                           Admitted(adm, qs, processedIds, SessionOf(m), queuedMessage),
                           Rejected(rej, qs, processedIds, SessionOf(m), queuedMessage))

\* the loop continues with list; the finally block runs when it ends
PollContinue(s, list) ==
  LET r == PollRun(list, queues, admitOrder, rejected)
  IN /\ queues' = r.q
     /\ admitOrder' = r.adm
     /\ rejected' = r.rej
     /\ pollList' = [pollList EXCEPT ![s] = r.rest]
     /\ IF r.rest = <<>>
          THEN /\ pollPc' = [pollPc EXCEPT ![s] = "idle"]
               /\ pollingLocks' = [pollingLocks EXCEPT ![s] = FALSE]
               /\ pollRunning' = [pollRunning EXCEPT ![s] = @ - 1]
               /\ UNCHANGED markCalled
          ELSE /\ pollPc' = [pollPc EXCEPT ![s] = "markFailed"]
               /\ markCalled' = markCalled \cup {Head(r.rest)}
               /\ UNCHANGED <<pollingLocks, pollRunning>>

\* the guard of pollQueuedMessages (index.ts 58-60)
\* a guard that lets every tick pass
PollGuardAlwaysPasses(s) == TRUE
PollGuard(s) == ~pollingLocks[s]

\* a poll timer fires: guard, lock, await getQueuedMessages
PollTick(s) ==
  /\ PollGuard(s)
  /\ pollingLocks' = [pollingLocks EXCEPT ![s] = TRUE]
  /\ pollRunning' = [pollRunning EXCEPT ![s] = @ + 1]
  /\ pollPc' = [pollPc EXCEPT ![s] = "fetch"]
  /\ UNCHANGED <<maxRetries, sideVars, storeVars, connected, queues, processedIds,
                 pollList, sendVars, timeVars, histVars, queueHist>>

\* getQueuedMessages answers: the queued records, or [] after a storage error
PollFetched(s, ok) ==
  /\ pollPc[s] = "fetch"
  /\ PollContinue(s, IF ok THEN getQueuedMessages(s) ELSE <<>>)
  /\ UNCHANGED <<maxRetries, sideVars, storeVars, connected, processedIds, sendVars,
                 timeVars, attempts, markedSent, markedFailed, failReason, completed,
                 sendTimes>>

\* markMessageFailed(msg.id, 'No recipient identifier provided') answers:
\* applied and the loop continues, or thrown and the catch ends the tick
PollMarkFailed(s, ok) ==
  /\ pollPc[s] = "markFailed"
  /\ LET m == Head(pollList[s])
     IN IF ok
          THEN /\ status' = [status EXCEPT ![m] = "FAILED"]
               /\ markedFailed' = markedFailed \cup {m}
               /\ failReason' = [failReason EXCEPT ![m] = NoRecipientReason]
               /\ PollContinue(s, Tail(pollList[s]))
          ELSE /\ pollPc' = [pollPc EXCEPT ![s] = "idle"]
               /\ pollingLocks' = [pollingLocks EXCEPT ![s] = FALSE]
               /\ pollRunning' = [pollRunning EXCEPT ![s] = @ - 1]
               /\ pollList' = [pollList EXCEPT ![s] = <<>>]
               /\ UNCHANGED <<status, markedFailed, failReason, queues, queueHist,
                              markCalled>>
  /\ UNCHANGED <<maxRetries, sideVars, created, connected, processedIds, sendVars,
                 timeVars, attempts, markedSent, completed, sendTimes>>

\* ------------------------------------------------------------------------
\* Send task: processDripQueue (src/index.ts), sendMessage
\* (src/whatsapp/sendMessage.ts)
\* ------------------------------------------------------------------------

\* the tick ends with the guard still set
SendFinishKeepsGuard(s) ==
  /\ sendPc' = [sendPc EXCEPT ![s] = "idle"]
  /\ sendRunning' = [sendRunning EXCEPT ![s] = @ - 1]
  /\ flight' = [flight EXCEPT ![s] = NoMsg]
  /\ UNCHANGED sendingLocks

\* the finally block: sendingLocks.set(sessionId, false)
SendFinish(s) ==
  /\ sendPc' = [sendPc EXCEPT ![s] = "idle"]
  /\ sendingLocks' = [sendingLocks EXCEPT ![s] = FALSE]
  /\ sendRunning' = [sendRunning EXCEPT ![s] = @ - 1]
  /\ flight' = [flight EXCEPT ![s] = NoMsg]

\* socket.sendMessage(targetJid, ...) is called for the message in flight
HandToDriver(s, msg) ==
  /\ attempts' = [attempts EXCEPT ![msg.id] = @ + 1]
  /\ sendTimes' = [sendTimes EXCEPT ![s] = <<@[2], now>>]

\* a send tick that passes its guards: lock, dequeue, sendMessage up to its
\* first await (the LID lookup of a phone number, or socket.sendMessage).
\* The poll admits no record without recipient, so the branch for a dequeued
\* message without recipient is not taken.
SendTick(s) ==
  /\ ~sendingLocks[s]
  /\ ~isQueueEmpty(queues, s)
  /\ isConnected(s)
  /\ LET message == DequeueMsg(queues, s)
     IN /\ message # NoMsg
        /\ RecipientOf(message.id) # "none"
        /\ sendingLocks' = [sendingLocks EXCEPT ![s] = TRUE]
        /\ sendRunning' = [sendRunning EXCEPT ![s] = @ + 1]
        /\ queues' = DequeueRest(queues, s)
        /\ processedIds' = DequeueProcessed(queues, processedIds, s)
        /\ flight' = [flight EXCEPT ![s] = message]
        /\ rejected' = rejected \ {message.id}
        /\ IF RecipientOf(message.id) = "pn"
             THEN /\ sendPc' = [sendPc EXCEPT ![s] = "lid"]
                  /\ UNCHANGED <<attempts, sendTimes>>
             ELSE /\ sendPc' = [sendPc EXCEPT ![s] = "send"]
                  /\ HandToDriver(s, message)
  /\ UNCHANGED <<maxRetries, sideVars, storeVars, connected, pollVars, markCalled,
                 markedSent, markedFailed, failReason, admitOrder, completed>>

\* repo.getLIDForPN answers (a LID, nothing, or an error that sendMessage
\* catches): sendMessage goes on to socket.sendMessage
LidResolved(s) ==
  /\ sendPc[s] = "lid"
  /\ sendPc' = [sendPc EXCEPT ![s] = "send"]
  /\ HandToDriver(s, flight[s])
  /\ UNCHANGED <<maxRetries, sideVars, storeVars, connected, queues, processedIds,
                 pollVars, sendingLocks, sendRunning, flight, timeVars, markCalled,
                 markedSent, markedFailed, failReason, queueHist, completed>>

\* the catch block of the send attempt (index.ts 150-179) up to its first
\* await: re-enqueue below the ceiling, else await markMessageFailed
CatchSendError(s) ==
  LET message == flight[s]
  IN IF message.retries < maxRetries
       THEN LET retried == [message EXCEPT !.retries = @ + 1]
            IN /\ queues' = Enqueue(queues, processedIds, s, retried)
               /\ admitOrder' = Admitted(admitOrder, queues, processedIds, s, retried)
               /\ rejected' = Rejected(rejected, queues, processedIds, s, retried)
               /\ SendFinish(s)
               /\ UNCHANGED markCalled
       ELSE /\ sendPc' = [sendPc EXCEPT ![s] = "markFailed"]
            /\ markCalled' = markCalled \cup {message.id}
            /\ UNCHANGED <<queues, queueHist, sendingLocks, sendRunning, flight>>

\* socket.sendMessage answers: resolved, or thrown into the catch block
DriverSendResult(s, ok) ==
  /\ sendPc[s] = "send"
  /\ IF ok
       THEN /\ sendPc' = [sendPc EXCEPT ![s] = "markSent"]
            /\ markCalled' = markCalled \cup {flight[s].id}
            /\ UNCHANGED <<queues, queueHist, sendingLocks, sendRunning, flight>>
       ELSE CatchSendError(s)
  /\ UNCHANGED <<maxRetries, sideVars, storeVars, connected, processedIds, pollVars,
                 timeVars, attempts, markedSent, markedFailed, failReason, completed,
                 sendTimes>>

\* markMessageSent(message.id, result.jid) answers: applied, or thrown into
\* the catch block
MarkSentResult(s, ok) ==
  /\ sendPc[s] = "markSent"
  /\ IF ok
       THEN /\ status' = [status EXCEPT ![flight[s].id] = "SENT"]
            /\ markedSent' = markedSent \cup {flight[s].id}
            /\ completed' = [completed EXCEPT ![s] = Append(@, flight[s].id)]
            /\ sendPc' = [sendPc EXCEPT ![s] = "lookup"]
            /\ UNCHANGED <<queues, queueHist, sendingLocks, sendRunning, flight, markCalled>>
       ELSE /\ CatchSendError(s)
            /\ UNCHANGED <<status, markedSent, completed>>
  /\ UNCHANGED <<maxRetries, sideVars, created, connected, processedIds, pollVars,
                 timeVars, attempts, markedFailed, failReason, sendTimes>>

\* getTenantBySession and getWebhookUrl answer after markMessageSent:
\* "url" both set (notifyTenant is called with the message.sent event),
\* "nourl" one of them null, "throw" a lookup throws into the catch block
LookupResult(s, r) ==
  /\ sendPc[s] = "lookup"
  /\ CASE r = "url" ->
            /\ sendPc' = [sendPc EXCEPT ![s] = "notify"]
            /\ UNCHANGED <<queues, queueHist, sendingLocks, sendRunning, flight, markCalled>>
       [] r = "nourl" ->
            /\ SendFinish(s)
            /\ UNCHANGED <<queues, queueHist, markCalled>>
       [] OTHER ->
            CatchSendError(s)
  /\ UNCHANGED <<maxRetries, sideVars, storeVars, connected, processedIds, pollVars,
                 timeVars, attempts, markedSent, markedFailed, failReason, completed,
                 sendTimes>>

\* notifyTenant returns (it does not throw): the tick ends
NotifyDone(s) ==
  /\ sendPc[s] \in {"notify", "notifyFailed"}
  /\ SendFinish(s)
  /\ UNCHANGED <<maxRetries, sideVars, storeVars, connected, queues, processedIds,
                 pollVars, timeVars, histVars, queueHist>>

\* markMessageFailed(message.id, errorMessage) answers; when it throws, the
\* outer catch and the finally block end the tick
MarkFailedResult(s, ok) ==
  /\ sendPc[s] = "markFailed"
  /\ IF ok
       THEN /\ status' = [status EXCEPT ![flight[s].id] = "FAILED"]
            /\ markedFailed' = markedFailed \cup {flight[s].id}
            /\ failReason' = [failReason EXCEPT ![flight[s].id] = SendErrorReason]
            /\ sendPc' = [sendPc EXCEPT ![s] = "lookupFailed"]
            /\ UNCHANGED <<sendingLocks, sendRunning, flight>>
       ELSE /\ SendFinish(s)
            /\ UNCHANGED <<status, markedFailed, failReason>>
  /\ UNCHANGED <<maxRetries, sideVars, created, connected, queues, processedIds,
                 pollVars, timeVars, attempts, markCalled, markedSent,
                 queueHist, completed, sendTimes>>

\* getTenantBySession and getWebhookUrl answer after markMessageFailed:
\* "url" notifyTenant is called with the message.failed event; otherwise
\* the tick ends (a throw is caught by the outer catch)
LookupFailedResult(s, r) ==
  /\ sendPc[s] = "lookupFailed"
  /\ IF r = "url"
       THEN /\ sendPc' = [sendPc EXCEPT ![s] = "notifyFailed"]
            /\ UNCHANGED <<sendingLocks, sendRunning, flight>>
       ELSE SendFinish(s)
  /\ UNCHANGED <<maxRetries, sideVars, storeVars, connected, queues, processedIds,
                 pollVars, timeVars, histVars, queueHist>>

\* ------------------------------------------------------------------------
\* Webhook dispatcher: notifyTenant (src/webhooks/notify.ts)
\* ------------------------------------------------------------------------

\* const delays = [0, 5000, 30000, 300000]
delays == <<0, 5000, 30000, 300000>>

\* the default of the parameter maxRetries
notifyMaxRetries == 3

\* the largest maxRetries argument the model calls notifyTenant with
MaxAttemptsArg == 5

\* WebhookEvent.type
EventTypes == {"message.received", "message.sent", "message.failed",
               "session.connected", "session.disconnected", "session.qr_code"}

\* no webhook url, and the url of a tenant
NoUrl == ""
Urls == {NoUrl, "https://tenant/hook"}

\* no secret argument (undefined), and two secrets
NoSecret == ""
Secrets == {NoSecret, "k1", "k2"}

\* signature when no secret is given (undefined): the header is left out
NoSignature == <<>>

\* delays[attempt] past the end of the array (undefined)
undefinedDelay == 0 - 1

NoArgs == [webhookUrl |-> NoUrl, event |-> [type |-> "-"], secret |-> NoSecret,
           maxRetries |-> 0, by |-> "-"]

\* the event the create...Event helpers build
WebhookEvent(type) == [type |-> type]

\* JSON.stringify(event)
stringify(event) == <<"json", event>>

\* crypto.createHmac('sha256', secret).update(payload).digest('hex')
generateSignature(payload, secret) == <<"hmac-sha256", secret, payload>>

\* const signature = secret ? generateSignature(payload, secret) : undefined
Signature(args) ==
  IF args.secret # NoSecret
    THEN generateSignature(stringify(args.event), args.secret)
    ELSE NoSignature

\* the fetch call with the attempt header one too low (attempt, not attempt + 1)
RequestCountsFromZero(args, k) ==
  [attempt |-> k, event |-> args.event.type, body |-> stringify(args.event),
   signature |-> Signature(args)]

\* the fetch call of iteration k: X-Webhook-Attempt, X-Webhook-Event, the
\* body and X-Webhook-Signature
Request(args, k) ==
  [attempt |-> k + 1, event |-> args.event.type, body |-> stringify(args.event),
   signature |-> Signature(args)]

\* const delay = delays[attempt]
DelayAt(k) == IF k + 1 \in DOMAIN delays THEN delays[k + 1] ELSE undefinedDelay

\* sleep(ms): the time setTimeout(resolve, ms) takes; an undefined delay is
\* taken as 1 ms
sleep(ms) == IF ms = undefinedDelay THEN 1 ELSE ms

\* the loop condition with <= in place of <
LoopGoesOnOneTooFar(args, k) == k <= args.maxRetries

\* the loop condition attempt < maxRetries
LoopGoesOn(args, k) == k < args.maxRetries

\* the for loop at the head of iteration k, run up to its next await: the
\* sleep of a retry, or the fetch of the first attempt
NotifyLoop(args, k) ==
  IF LoopGoesOn(args, k)
    THEN /\ attempt' = k
         /\ UNCHANGED hookResult
         /\ IF k > 0
              THEN /\ hookPc' = "sleep"
                   /\ waits' = Append(waits, sleep(DelayAt(k)))
                   /\ UNCHANGED httpCalls
              ELSE /\ hookPc' = "fetch"
                   /\ httpCalls' = Append(httpCalls, Request(args, k))
                   /\ UNCHANGED waits
    ELSE /\ hookPc' = "done"
         /\ hookResult' = "no attempt"
         /\ UNCHANGED <<attempt, httpCalls, waits>>

\* notifyTenant(webhookUrl, event, secret, maxRetries) is called
notifyTenant(webhookUrl, event, secret, maxR, by) ==
  LET args == [webhookUrl |-> webhookUrl, event |-> event, secret |-> secret,
               maxRetries |-> maxR, by |-> by]
  IN /\ hookPc = "idle"
     /\ hookArgs' = args
     /\ IF webhookUrl = NoUrl
          THEN /\ hookPc' = "done"
               /\ hookResult' = "no url"
               /\ UNCHANGED <<attempt, httpCalls, waits>>
          ELSE NotifyLoop(args, 0)
     /\ UNCHANGED <<answers, hookRest>>

\* the service emits a notification (index.ts, SessionManager.ts): the url
\* of the tenant, the event, no secret, the default maxRetries
ServiceNotifies(type) ==
  notifyTenant("https://tenant/hook", WebhookEvent(type), NoSecret,
               notifyMaxRetries, "service")

\* a call of the exported function with any arguments
NotifyCalled(webhookUrl, type, secret, maxR) ==
  notifyTenant(webhookUrl, WebhookEvent(type), secret, maxR, "caller")

\* await sleep(delay) is over: the fetch of the retry is made
SleepDone ==
  /\ hookPc = "sleep"
  /\ hookPc' = "fetch"
  /\ httpCalls' = Append(httpCalls, Request(hookArgs, attempt))
  /\ UNCHANGED <<hookArgs, attempt, waits, answers, hookResult, hookRest>>

\* the catch block that throws again after the last attempt
CatchRethrows ==
  IF attempt = hookArgs.maxRetries - 1
    THEN /\ hookPc' = "done"
         /\ hookResult' = "raised"
         /\ UNCHANGED <<attempt, httpCalls, waits>>
    ELSE NotifyLoop(hookArgs, attempt + 1)

\* the catch block (notify.ts 86-105): return after the last attempt, else
\* fall through to the next iteration
CatchAttemptError ==
  IF attempt = hookArgs.maxRetries - 1
    THEN /\ hookPc' = "done"
         /\ hookResult' = "dropped"
         /\ UNCHANGED <<attempt, httpCalls, waits>>
    ELSE NotifyLoop(hookArgs, attempt + 1)

\* fetch answers: "ok" a success status, "status" a non-success status,
\* "error" a network error or the 10 s timeout (fetch throws)
FetchAnswers(r) ==
  /\ hookPc = "fetch"
  /\ answers' = Append(answers, r)
  /\ CASE r = "ok" ->
            /\ hookPc' = "done"
            /\ hookResult' = "delivered"
            /\ UNCHANGED <<attempt, httpCalls, waits>>
       [] r = "status" ->
            IF attempt = hookArgs.maxRetries - 1
              THEN CatchAttemptError
              ELSE NotifyLoop(hookArgs, attempt + 1)
       [] OTHER ->
            CatchAttemptError
  /\ UNCHANGED <<hookArgs, hookRest>>

FetchResults == {"ok", "status", "error"}

\* ------------------------------------------------------------------------
\* SSE broadcaster (src/events/broadcaster.ts) and the stream endpoint
\* (src/index.ts)
\* ------------------------------------------------------------------------

\* the response objects of the stream requests
Viewers == {"v1", "v2", "v3", "v4"}

\* req.params.sessionId of the viewer's request
ViewerSession(v) == IF v = "v4" THEN "s2" ELSE "s1"

\* the message broadcast to the viewers
Events == {"e1"}

\* sseClients.get(sessionId), as a sequence (a Set keeps insertion order)
ClientsOf(map, sid) == IF sid \in DOMAIN map THEN map[sid] ELSE <<>>

Range(q) == {q[i] : i \in 1..Len(q)}

\* clients.delete(res)
Without(q, v) == SelectSeq(q, LAMBDA x : x # v)

\* sseClients.delete(sessionId)
MapDelete(map, sid) == [s \in DOMAIN map \ {sid} |-> map[s]]

\* res.write(frame) throws for this viewer
WriteThrows(v) == conn[v] # "open"

\* clients.forEach without the try/catch around res.write: the first failing
\* write ends the loop and leaves the function as an exception
RECURSIVE BroadcastRunUncaught(_, _, _, _)
BroadcastRunUncaught(todo, clients, recv, e) ==
  IF todo = <<>>
    THEN [clients |-> clients, received |-> recv, raised |-> FALSE]
    ELSE LET res == Head(todo)
         IN IF WriteThrows(res)
              THEN [clients |-> clients, received |-> recv, raised |-> TRUE]
              ELSE BroadcastRunUncaught(Tail(todo), clients,
                                        [recv EXCEPT ![res] = @ \cup {e}], e)

\* clients.forEach((res) => { try { res.write } catch { clients.delete(res) } })
\* over the viewers todo: the set and the frames afterwards
RECURSIVE BroadcastRun(_, _, _, _)
BroadcastRun(todo, clients, recv, e) ==
  IF todo = <<>>
    THEN [clients |-> clients, received |-> recv, raised |-> FALSE]
    ELSE LET res == Head(todo)
         IN IF WriteThrows(res)
              THEN BroadcastRun(Tail(todo), Without(clients, res), recv, e)
              ELSE BroadcastRun(Tail(todo), clients,
                                [recv EXCEPT ![res] = @ \cup {e}], e)

\* broadcastMessageToSSE(sessionId, message)
broadcastMessageToSSE(sid, e) ==
  LET clients == ClientsOf(sseClients, sid)
  IN /\ IF sid \notin DOMAIN sseClients \/ Len(clients) = 0
          THEN UNCHANGED <<sseClients, received, sseError>>
          ELSE LET r == BroadcastRun(clients, clients, received, e)
               IN /\ sseClients' = [sseClients EXCEPT ![sid] = r.clients]
                  /\ received' = r.received
                  /\ sseError' = (sseError \/ r.raised)
     /\ UNCHANGED <<conn, viewRest>>

\* addSSEClient(sessionId, response)
addSSEClient(map, sid, res) ==
  LET with == IF sid \in DOMAIN map
                THEN map
                ELSE [s \in DOMAIN map \cup {sid} |->
                        IF s \in DOMAIN map THEN map[s] ELSE <<>>]
  IN [with EXCEPT ![sid] = IF res \in Range(@) THEN @ ELSE Append(@, res)]

\* removeSSEClient(sessionId, response)
removeSSEClient(map, sid, res) ==
  IF sid \in DOMAIN map
    THEN IF Len(Without(map[sid], res)) = 0
           THEN MapDelete(map, sid)
           ELSE [map EXCEPT ![sid] = Without(@, res)]
    ELSE map

\* GET /session/:sessionId/messages/stream: the viewer is added and the
\* 'connected' frame is written
StreamOpened(v) ==
  /\ conn[v] = "new"
  /\ sseClients' = addSSEClient(sseClients, ViewerSession(v), v)
  /\ conn' = [conn EXCEPT ![v] = "open"]
  /\ received' = [received EXCEPT ![v] = @ \cup {"connected"}]
  /\ UNCHANGED <<sseError, viewRest>>

\* the viewer's stream breaks: from now on res.write throws
WriteBreaks(v) ==
  /\ conn[v] = "open"
  /\ conn' = [conn EXCEPT ![v] = "broken"]
  /\ UNCHANGED <<sseClients, received, sseError, viewRest>>

\* req.on('close'): removeSSEClient, res.end()
StreamClosed(v) ==
  /\ conn[v] \in {"open", "broken", "ended"}
  /\ sseClients' = removeSSEClient(sseClients, ViewerSession(v), v)
  /\ conn' = [conn EXCEPT ![v] = "closed"]
  /\ UNCHANGED <<received, sseError, viewRest>>

\* the viewers of all sessions in the map, session by session
RECURSIVE AllClients(_)
AllClients(map) ==
  IF DOMAIN map = {}
    THEN <<>>
    ELSE LET sid == CHOOSE s \in DOMAIN map : TRUE
         IN map[sid] \o AllClients(MapDelete(map, sid))

\* the shutdown loop without the try/catch around res.write and res.end
RECURSIVE ShutdownRunUncaught(_, _, _)
ShutdownRunUncaught(todo, recv, cn) ==
  IF todo = <<>>
    THEN [received |-> recv, conn |-> cn, raised |-> FALSE]
    ELSE LET res == Head(todo)
         IN IF WriteThrows(res)
              THEN [received |-> recv, conn |-> cn, raised |-> TRUE]
              ELSE ShutdownRunUncaught(Tail(todo),
                                       [recv EXCEPT ![res] = @ \cup {"shutdown"}],
                                       [cn EXCEPT ![res] = "ended"])

\* the loops of disconnectAllSSEClients over the viewers todo: the shutdown
\* frame is written and the stream ended; an error is ignored
RECURSIVE ShutdownRun(_, _, _)
ShutdownRun(todo, recv, cn) ==
  IF todo = <<>>
    THEN [received |-> recv, conn |-> cn, raised |-> FALSE]
    ELSE LET res == Head(todo)
         IN IF WriteThrows(res)
              THEN ShutdownRun(Tail(todo), recv, cn)
              ELSE ShutdownRun(Tail(todo),
                               [recv EXCEPT ![res] = @ \cup {"shutdown"}],
                               [cn EXCEPT ![res] = "ended"])

\* disconnectAllSSEClients(), called by the SIGINT and SIGTERM handlers
disconnectAllSSEClients ==
  LET r == ShutdownRun(AllClients(sseClients), received, conn)
  IN /\ received' = r.received
     /\ conn' = r.conn
     /\ sseError' = (sseError \/ r.raised)
     /\ sseClients' = IF r.raised THEN sseClients ELSE <<>>
     /\ UNCHANGED <<viewRest>>

\* ------------------------------------------------------------------------
\* SessionManager (src/whatsapp/SessionManager.ts), the session routes and
\* the startup loop (src/index.ts)
\* ------------------------------------------------------------------------

maxReconnectAttempts == 5

\* sockets the manager makes in all: with every request and event, with
\* the requests around a delete, and in the scenario of repeated losses
MaxSockets == 3
DeleteSockets == 2
ScenarioSockets == 8

\* operator requests (create, delete, regenerate) accepted in all
MaxCommands == 1
PairSockets == 3
HookSockets == 2

SessIds == {"s1"}

NoSocket == 0

\* a socket as makeWASocket returns it, with the SessionData createSession
\* builds for it (69-75); paired: the credentials it was made with are
\* those of a paired device
NewSocket(s, paired) ==
  [sid |-> s, link |-> "connecting", paired |-> paired, qrSent |-> FALSE,
   logoutFailed |-> "-", connected |-> FALSE, reconnectAttempts |-> 0,
   qrCode |-> NoSocket]

\* an async call at its pending await: ref is the SessionData (or socket)
\* the call holds, reconnect the handler's shouldReconnect, paired what
\* useMultiFileAuthState has read
Task(kind, s, pc, ref, reconnect, paired) ==
  [kind |-> kind, sid |-> s, pc |-> pc, ref |-> ref, reconnect |-> reconnect,
   paired |-> paired, delay |-> 0]

\* Math.min(1000 * Math.pow(2, reconnectAttempts), 30000) (140)
reconnectBaseMs == 1000
reconnectCapMs == 30000
ReconnectDelayUncapped(n) == reconnectBaseMs * 2^n
ReconnectDelay(n) == Min(reconnectBaseMs * 2^n, reconnectCapMs)

\* the reconnect timer set by the close handler (145), with its delay
ReconnectTimer(s, n) ==
  [Task("timer", s, "timer", NoSocket, FALSE, FALSE) EXCEPT !.delay = ReconnectDelay(n)]

\* the open branch of connection.update on a SessionData (163-167)
MarkOpenKeepsCode(data) ==
  [data EXCEPT !.connected = TRUE, !.reconnectAttempts = 0]
MarkOpen(data) ==
  [data EXCEPT !.connected = TRUE, !.reconnectAttempts = 0, !.qrCode = NoSocket]

One(t) == SetToBag({t})

TasksOf(s, kinds) == {t \in BagToSet(tasks) : t.sid = s /\ t.kind \in kinds}

\* this.sessions.has(sessionId)
Has(reg, s) == s \in DOMAIN reg

\* this.sessions.set(sessionId, sessionData)
RegSet(reg, s, k) == [x \in DOMAIN reg \cup {s} |-> IF x = s THEN k ELSE reg[x]]

\* this.sessions.get(sessionId), NoSocket for undefined
RegGet(reg, s) == IF Has(reg, s) THEN reg[s] ELSE NoSocket

\* the sockets of s that have been opened and not closed, those left open
\* by a logout that threw aside
LiveSockets(s) ==
  {k \in 1..Len(sockets) : /\ sockets[k].sid = s
                           /\ sockets[k].link # "closed"
                           /\ sockets[k].logoutFailed = "-"}

\* createSession up to its first await (41-51): the existing socket is
\* returned, or the call awaits useMultiFileAuthState
CreateCall(reg, kind, s, ref) ==
  IF Has(reg, s) THEN EmptyBag ELSE One(Task(kind, s, "auth", ref, FALSE, FALSE))

\* this.sendWebhook(sessionId, callback), called without await by the
\* connection.update handler (106, 130, 178): the call runs on its own and
\* the handler goes on at once. The call is followed for a tenant with a
\* webhook URL; without one it ends after its lookups with no effect. In
\* the open branch the handler first awaits updateSessionStatus (171).
SendWebhookCall(s, ev, pc) ==
  IF tenantUrl[s] THEN One([sid |-> s, ev |-> ev, pc |-> pc]) ELSE EmptyBag

\* the catch of sendWebhook (607-610): the error is logged and the registry
\* is as it was
WebhookErrorEscapes(reg) == <<>>
WebhookErrorCaught(reg) == reg

\* updateSessionStatus of the open branch answers (171-174): sendWebhook is
\* called, or the handler ends with the error before calling it
OpenStatusDone(h, ok) ==
  /\ h \in BagToSet(webhooks)
  /\ h.pc = "status"
  /\ webhooks' = IF ok THEN (webhooks (-) One(h)) (+) One([h EXCEPT !.pc = "lookup"])
                       ELSE webhooks (-) One(h)
  /\ UNCHANGED <<sessions, sockets, creds, tasks, timers, serving, booted, dbRow,
                 commands, socketCap, deleted, logoutEnded, losses, tenantUrl,
                 sessRest>>

\* getTenantBySession and getWebhookUrl answer (601-602): the callback is
\* called with the URL (604-606), or a lookup throws into the catch
WebhookLookup(h, ok) ==
  /\ h \in BagToSet(webhooks)
  /\ h.pc = "lookup"
  /\ IF ok
       THEN /\ webhooks' = (webhooks (-) One(h)) (+) One([h EXCEPT !.pc = "notify"])
            /\ UNCHANGED sessions
       ELSE /\ webhooks' = webhooks (-) One(h)
            /\ sessions' = WebhookErrorCaught(sessions)
  /\ UNCHANGED <<sockets, creds, tasks, timers, serving, booted, dbRow,
                 commands, socketCap, deleted, logoutEnded, losses, tenantUrl,
                 sessRest>>

\* the callback ends: notifyTenant has delivered the event or given up
\* after its retries, or the callback throws into the catch
WebhookNotified(h, ok) ==
  /\ h \in BagToSet(webhooks)
  /\ h.pc = "notify"
  /\ webhooks' = webhooks (-) One(h)
  /\ sessions' = IF ok THEN sessions ELSE WebhookErrorCaught(sessions)
  /\ UNCHANGED <<sockets, creds, tasks, timers, serving, booted, dbRow,
                 commands, socketCap, deleted, logoutEnded, losses, tenantUrl,
                 sessRest>>

\* the close branch of connection.update up to its await (113-127), on the
\* SessionData the map holds for the session id
CloseHandlerStarts(socks, reg, s) ==
  IF Has(reg, s) THEN [socks EXCEPT ![reg[s]].connected = FALSE] ELSE socks

CloseHandlerTask(reg, s, reconnect) ==
  Task("close", s, "status", RegGet(reg, s), reconnect, FALSE)

\* startService (index.ts 1017-1021): the loop reaches an active session and
\* awaits createSession for it, one session at a time
StartupLoads(s) ==
  /\ ~serving
  /\ s \notin booted
  /\ dbRow[s]
  /\ \A x \in Sessions : TasksOf(x, {"startup"}) = {}
  /\ booted' = booted \cup {s}
  /\ tasks' = tasks (+) CreateCall(sessions, "startup", s, NoSocket)
  /\ timers' = IF Has(sessions, s) THEN timers \cup {s} ELSE timers
  /\ UNCHANGED <<sessions, sockets, creds, serving, dbRow, commands, socketCap,
                 deleted, logoutEnded, losses, dispatchVars, sessRest>>

\* the loop has ended: app.listen (index.ts 1036)
ServerListens ==
  /\ ~serving
  /\ \A s \in SessIds : dbRow[s] => s \in booted
  /\ \A s \in Sessions : TasksOf(s, {"startup"}) = {}
  /\ serving' = TRUE
  /\ UNCHANGED <<sessions, sockets, creds, tasks, timers, booted, dbRow, commands,
                 socketCap, deleted, logoutEnded, losses, dispatchVars, sessRest>>

\* POST /tenant/sessions (index.ts 373-410): the row is inserted (refused
\* for an id that has one) and createSession is awaited; no interval is set
PostTenantSession(s) ==
  /\ serving
  /\ commands < MaxCommands
  /\ ~dbRow[s]
  /\ dbRow' = [dbRow EXCEPT ![s] = TRUE]
  /\ commands' = commands + 1
  /\ deleted' = [deleted EXCEPT ![s] = FALSE]
  /\ logoutEnded' = [logoutEnded EXCEPT ![s] = FALSE]
  /\ tasks' = tasks (+) CreateCall(sessions, "create", s, NoSocket)
  /\ UNCHANGED <<sessions, sockets, creds, timers, serving, booted, socketCap,
                 losses, dispatchVars, sessRest>>

\* deleteSession removes the entry also after a logout that threw (521-524)
LogoutErrorEndsDelete(reg, s, ok) == IF ok THEN MapDelete(reg, s) ELSE reg
DeleteEntry(reg, s, ok) == MapDelete(reg, s)

\* DELETE /session/:id (index.ts 802-820) calls deleteSession (505-540):
\* with an entry it awaits socket.logout(); without one it removes the
\* credentials and returns, and the route deletes the row
DeleteCalled(s) ==
  /\ serving
  /\ commands < MaxCommands
  /\ dbRow[s]
  /\ commands' = commands + 1
  /\ logoutEnded' = [logoutEnded EXCEPT ![s] = FALSE]
  /\ IF Has(sessions, s)
       THEN /\ tasks' = tasks (+) One(Task("delete", s, "logout", sessions[s],
                                          FALSE, FALSE))
            /\ UNCHANGED <<creds, deleted, dbRow>>
       ELSE /\ creds' = [creds EXCEPT ![s] = "none"]
            /\ deleted' = [deleted EXCEPT ![s] = TRUE]
            /\ dbRow' = [dbRow EXCEPT ![s] = FALSE]
            /\ UNCHANGED tasks
  /\ UNCHANGED <<sessions, sockets, timers, serving, booted, socketCap, losses,
                 dispatchVars, sessRest>>

\* POST /session/:id/regenerate-qr (index.ts 823) calls regenerateQR
\* (545-584): with an entry it awaits socket.logout(); without one it
\* removes the credentials and waits one second
RegenerateCalled(s) ==
  /\ serving
  /\ commands < MaxCommands
  /\ dbRow[s]
  /\ commands' = commands + 1
  /\ logoutEnded' = [logoutEnded EXCEPT ![s] = FALSE]
  /\ IF Has(sessions, s)
       THEN /\ tasks' = tasks (+) One(Task("regen", s, "logout", sessions[s],
                                          FALSE, FALSE))
            /\ UNCHANGED creds
       ELSE /\ tasks' = tasks (+) One(Task("regen", s, "wait", NoSocket,
                                          FALSE, FALSE))
            /\ creds' = [creds EXCEPT ![s] = "none"]
  /\ UNCHANGED <<sessions, sockets, timers, serving, booted, dbRow, socketCap,
                 deleted, losses, dispatchVars, sessRest>>

\* socket.logout() of deleteSession or regenerateQR answers. It resolves
\* after the socket has ended with the logged-out reason, so the close
\* branch has run up to its await; it throws when the node cannot be sent
\* (always on a closed link), and the socket is left as it is.
\* deleteSession goes on to its end (521-539) in both cases; regenerateQR
\* deletes the entry only after a logout that resolved (557) and goes on
\* to its one-second wait.
LogoutAnswers(t, ok) ==
  /\ t \in BagToSet(tasks)
  /\ t.pc = "logout"
  /\ ok => sockets[t.ref].link # "closed"
  /\ LET s == t.sid
         ended == [sockets EXCEPT ![t.ref].link = "closed"]
         closing == IF ok THEN One(CloseHandlerTask(sessions, s, FALSE))
                    ELSE EmptyBag
     IN /\ sockets' = IF ok THEN CloseHandlerStarts(ended, sessions, s)
                      ELSE [sockets EXCEPT ![t.ref].logoutFailed = t.kind]
        /\ creds' = [creds EXCEPT ![s] = "none"]
        /\ losses' = [losses EXCEPT ![s] = 0]
        /\ IF t.kind = "delete"
             THEN /\ sessions' = DeleteEntry(sessions, s, ok)
                  /\ tasks' = (tasks (-) One(t)) (+) closing
                  /\ deleted' = [deleted EXCEPT ![s] = TRUE]
                  /\ dbRow' = [dbRow EXCEPT ![s] = FALSE]
             ELSE /\ sessions' = IF ok THEN MapDelete(sessions, s) ELSE sessions
                  /\ tasks' = ((tasks (-) One(t)) (+) closing)
                                (+) One([t EXCEPT !.pc = "wait"])
                  /\ UNCHANGED <<deleted, dbRow>>
  /\ UNCHANGED <<timers, serving, booted, commands, socketCap, logoutEnded,
                 dispatchVars, sessRest>>

\* connection.update with qr (97-111): an unpaired socket issues a pairing
\* code, stored in the SessionData the map holds for the session id
SocketQR(k) ==
  /\ k \in 1..Len(sockets)
  /\ sockets[k].link = "connecting"
  /\ ~sockets[k].paired
  /\ ~sockets[k].qrSent
  /\ LET s == sockets[k].sid
         sent == [sockets EXCEPT ![k].qrSent = TRUE]
     IN /\ sockets' = IF Has(sessions, s)
                        THEN [sent EXCEPT ![sessions[s]].qrCode = k]
                        ELSE sent
        /\ webhooks' = webhooks (+) SendWebhookCall(s, "qr", "lookup")
  /\ UNCHANGED <<sessions, creds, tasks, timers, serving, booted, dbRow, commands,
                 socketCap, deleted, logoutEnded, losses, tenantUrl, sessRest>>

\* the pairing code of socket k is scanned: creds.update stores the
\* credentials of the paired device (saveCreds, 91)
PairingScanned(k) ==
  /\ k \in 1..Len(sockets)
  /\ sockets[k].link = "connecting"
  /\ sockets[k].qrSent
  /\ creds[sockets[k].sid] = "none"
  /\ creds' = [creds EXCEPT ![sockets[k].sid] = "paired"]
  /\ UNCHANGED <<sessions, sockets, tasks, timers, serving, booted, dbRow,
                 commands, socketCap, deleted, logoutEnded, losses, dispatchVars, sessRest>>

\* connection.update with connection 'open' (161-188), on the SessionData
\* the map holds for the session id
SocketOpens(k) ==
  /\ k \in 1..Len(sockets)
  /\ sockets[k].link = "connecting"
  /\ sockets[k].paired
  /\ LET s == sockets[k].sid
         opened == [sockets EXCEPT ![k].link = "open"]
     IN /\ sockets' = IF Has(sessions, s)
                        THEN [opened EXCEPT ![sessions[s]] = MarkOpen(@)]
                        ELSE opened
        /\ losses' = [losses EXCEPT ![s] = 0]
        /\ webhooks' = webhooks (+) SendWebhookCall(s, "connected", "status")
  /\ UNCHANGED <<sessions, creds, tasks, timers, serving, booted, dbRow, commands,
                 socketCap, deleted, logoutEnded, tenantUrl, sessRest>>

\* connection.update with connection 'close' (113-127): the link of socket
\* k is lost, or the device was logged out; the handler awaits
\* updateSessionStatus
SocketCloses(k, reason) ==
  /\ k \in 1..Len(sockets)
  /\ sockets[k].link # "closed"
  /\ reason = "loggedOut" => sockets[k].paired
  /\ LET s == sockets[k].sid
         ended == [sockets EXCEPT ![k].link = "closed"]
     IN /\ sockets' = CloseHandlerStarts(ended, sessions, s)
        /\ tasks' = tasks (+) One(CloseHandlerTask(sessions, s, reason = "lost"))
        /\ losses' = [losses EXCEPT ![s] = IF reason = "lost" THEN @ + 1 ELSE 0]
        /\ logoutEnded' = [logoutEnded EXCEPT ![s] = FALSE]
  /\ UNCHANGED <<sessions, creds, timers, serving, booted, dbRow, commands,
                 socketCap, deleted, dispatchVars, sessRest>>

\* handleLogoutAndRegenerate up to its await (399-417), for the call t of
\* the close handler: nothing without an entry; else the entry is deleted,
\* the credentials are removed and the call waits one second
LogoutHandlingStarts(t) ==
  LET s == t.sid
  IN IF Has(sessions, s)
       THEN /\ sessions' = MapDelete(sessions, s)
            /\ creds' = [creds EXCEPT ![s] = "none"]
            /\ tasks' = (tasks (-) One(t))
                          (+) One(Task("logout", s, "wait", NoSocket, FALSE, FALSE))
       ELSE /\ tasks' = tasks (-) One(t)
            /\ UNCHANGED <<sessions, creds>>

\* the reconnect counter of the SessionData is below the ceiling (138)
BelowCeiling(data) == data.reconnectAttempts < maxReconnectAttempts

\* updateSessionStatus of the close handler answers (it does not throw):
\* the handler counts and schedules a reconnect, or handles the logout
\* (137-160)
CloseStatusDone(t) ==
  /\ t \in BagToSet(tasks)
  /\ t.kind = "close"
  /\ IF t.reconnect /\ t.ref # NoSocket /\ BelowCeiling(sockets[t.ref])
       THEN /\ sockets' = [sockets EXCEPT ![t.ref].reconnectAttempts = @ + 1]
            /\ tasks' = (tasks (-) One(t))
                          (+) One(ReconnectTimer(t.sid,
                                                 sockets[t.ref].reconnectAttempts + 1))
            /\ UNCHANGED <<sessions, creds>>
       ELSE /\ LogoutHandlingStarts(t)
            /\ UNCHANGED sockets
  /\ webhooks' = webhooks (+) SendWebhookCall(t.sid, "disconnected", "lookup")
  /\ UNCHANGED <<timers, serving, booted, dbRow, commands, socketCap, deleted,
                 logoutEnded, losses, tenantUrl, sessRest>>

\* the reconnect timer fires: reconnectSession (434-450) up to the await
\* inside createSession
ReconnectTimerFires(t) ==
  /\ t \in BagToSet(tasks)
  /\ t.kind = "timer"
  /\ IF Has(sessions, t.sid)
       THEN /\ sessions' = MapDelete(sessions, t.sid)
            /\ tasks' = (tasks (-) One(t))
                          (+) CreateCall(MapDelete(sessions, t.sid), "reconnect", t.sid,
                                         NoSocket)
       ELSE /\ tasks' = tasks (-) One(t)
            /\ UNCHANGED sessions
  /\ UNCHANGED <<sockets, creds, timers, serving, booted, dbRow, commands,
                 socketCap, deleted, logoutEnded, losses, dispatchVars, sessRest>>

\* the one-second wait of handleLogoutAndRegenerate (417) or regenerateQR
\* (574) ends: createSession is called
WaitDone(t) ==
  /\ t \in BagToSet(tasks)
  /\ t.pc = "wait"
  /\ tasks' = (tasks (-) One(t)) (+) CreateCall(sessions, t.kind, t.sid, t.ref)
  /\ logoutEnded' = IF t.kind = "logout" /\ Has(sessions, t.sid)
                      THEN [logoutEnded EXCEPT ![t.sid] = TRUE]
                      ELSE logoutEnded
  /\ UNCHANGED <<sessions, sockets, creds, timers, serving, booted, dbRow,
                 commands, socketCap, deleted, losses, dispatchVars, sessRest>>

\* useMultiFileAuthState answers (51): the stored credentials, or it throws.
\* reconnectSession and handleLogoutAndRegenerate catch and log; for
\* regenerateQR, the route and the startup loop the call ends with the error
AuthAnswers(t, ok) ==
  /\ t \in BagToSet(tasks)
  /\ t.pc = "auth"
  /\ tasks' = IF ok
                THEN (tasks (-) One(t))
                       (+) One([t EXCEPT !.pc = "version",
                                         !.paired = (creds[t.sid] = "paired")])
                ELSE tasks (-) One(t)
  /\ logoutEnded' = IF t.kind = "logout" /\ ~ok
                      THEN [logoutEnded EXCEPT ![t.sid] = TRUE]
                      ELSE logoutEnded
  /\ UNCHANGED <<sessions, sockets, creds, timers, serving, booted, dbRow,
                 commands, socketCap, deleted, losses, dispatchVars, sessRest>>

\* fetchLatestBaileysVersion answers (52; it falls back to a built-in
\* version): makeWASocket, a new SessionData, sessions.set, the handlers
\* (54-82). The startup loop then sets the two intervals (index.ts
\* 1026-1027).
VersionAnswers(t) ==
  /\ t \in BagToSet(tasks)
  /\ t.pc = "version"
  /\ Len(sockets) < socketCap
  /\ sockets' = Append(sockets, NewSocket(t.sid, t.paired))
  /\ sessions' = RegSet(sessions, t.sid, Len(sockets) + 1)
  /\ tasks' = tasks (-) One(t)
  /\ timers' = IF t.kind = "startup" THEN timers \cup {t.sid} ELSE timers
  /\ logoutEnded' = IF t.kind = "logout"
                      THEN [logoutEnded EXCEPT ![t.sid] = TRUE]
                      ELSE logoutEnded
  /\ UNCHANGED <<creds, serving, booted, dbRow, commands, socketCap, deleted,
                 losses, dispatchVars, sessRest>>

\* ------------------------------------------------------------------------
\* Specifications
\* ------------------------------------------------------------------------

LookupAnswers == {"url", "nourl", "throw"}

\* the session manager before startService: an empty map; rows and
\* paired credentials are stored for some of the sessions of rows; the
\* manager may make cap sockets
StoredSessions(rows, cap) ==
  /\ sessions = <<>>
  /\ sockets = <<>>
  /\ dbRow \in {f \in [Sessions -> BOOLEAN] : \A s \in Sessions : f[s] => s \in rows}
  /\ creds \in {c \in [Sessions -> {"none", "paired"}] :
                  \A s \in Sessions : c[s] = "paired" => dbRow[s]}
  /\ tasks = EmptyBag
  /\ timers = {}
  /\ serving = FALSE
  /\ booted = {}
  /\ commands = 0
  /\ socketCap = cap
  /\ deleted = [s \in Sessions |-> FALSE]
  /\ logoutEnded = [s \in Sessions |-> FALSE]
  /\ losses = [s \in Sessions |-> 0]

\* inbound messages of session s1 from other accounts: a text, a media
\* message, a second text, one without remoteJid, one without content
Inbound == {"m1", "m2", "m3", "m4", "m5"}
InboundKind == [m \in Inbound |->
                  CASE m = "m2" -> "media"
                    [] m = "m4" -> "nojid"
                    [] m = "m5" -> "empty"
                    [] OTHER -> "text"]

\* handler runs that may be in progress at once, and the size of a batch
MaxBatches == 2
MaxBatchLen == 2
Batches == 1..MaxBatches
NoBatch == [rest |-> <<>>, pc |-> "none"]

\* the delivery tasks, notifyTenant and the broadcaster before their first
\* step, with one of the given retry ceilings
Idle(ceilings) ==
  /\ maxRetries \in ceilings
  /\ upserts = [b \in Batches |-> NoBatch]
  /\ arrived = {}
  /\ stored = {}
  /\ storeFailed = {}
  /\ fanout = {}
  /\ hooked = {}
  /\ status = [m \in Messages |-> "NONE"]
  /\ created = [s \in Sessions |-> <<>>]
  /\ connected = [s \in Sessions |-> FALSE]
  /\ queues = [s \in Sessions |-> <<>>]
  /\ processedIds = {}
  /\ pollingLocks = [s \in Sessions |-> FALSE]
  /\ sendingLocks = [s \in Sessions |-> FALSE]
  /\ pollPc = [s \in Sessions |-> "idle"]
  /\ pollList = [s \in Sessions |-> <<>>]
  /\ sendPc = [s \in Sessions |-> "idle"]
  /\ flight = [s \in Sessions |-> NoMsg]
  /\ now = 0
  /\ nextSend = [s \in Sessions |-> sendIntervalMs]
  /\ attempts = [m \in Messages |-> 0]
  /\ markCalled = {}
  /\ markedSent = {}
  /\ markedFailed = {}
  /\ failReason = [m \in Messages |-> NoReason]
  /\ admitOrder = [s \in Sessions |-> <<>>]
  /\ rejected = {}
  /\ completed = [s \in Sessions |-> <<>>]
  /\ sendTimes = [s \in Sessions |-> <<NoTime, NoTime>>]
  /\ pollRunning = [s \in Sessions |-> 0]
  /\ sendRunning = [s \in Sessions |-> 0]
  /\ hookPc = "idle"
  /\ hookArgs = NoArgs
  /\ attempt = 0
  /\ httpCalls = <<>>
  /\ waits = <<>>
  /\ answers = <<>>
  /\ hookResult = "-"
  /\ sseClients = <<>>
  /\ conn = [v \in Viewers |-> "new"]
  /\ received = [v \in Viewers |-> {}]
  /\ sseError = FALSE
  /\ skipped = {}

\* the state after startService, with one of the given retry ceilings
\* ------------------------------------------------------------------------
\* Inbound messages: the messages.upsert handler and handleIncomingMessage
\* (src/whatsapp/SessionManager.ts 198-315), insertIncomingMessage
\* (src/supabase/insertIncomingMessage.ts)
\* ------------------------------------------------------------------------

\* the for loop up to its next await (200-218): a message without content
\* is skipped (213); handleIncomingMessage returns at once for one without
\* remoteJid (225-228)
RECURSIVE NextToHandle(_)
NextToHandle(msgs) ==
  IF msgs = <<>> THEN <<>>
  ELSE IF InboundKind[Head(msgs)] \in {"nojid", "empty"} THEN NextToHandle(Tail(msgs))
  ELSE msgs

\* the handler run at the first await of the next message it handles:
\* downloadAndSaveMedia for a media message (251-254), else
\* insertIncomingMessage (279); the run ends with the batch
HandlerAt(msgs) ==
  LET rest == NextToHandle(msgs)
  IN IF rest = <<>> THEN NoBatch
     ELSE [rest |-> rest,
           pc |-> IF InboundKind[Head(rest)] = "media" THEN "media" ELSE "insert"]

\* the batches of new messages the driver may deliver
BatchesOf(left) ==
  {q \in UNION {[1..n -> left] : n \in 1..MaxBatchLen} :
     \A i, j \in DOMAIN q : i # j => q[i] # q[j]}

\* messages.upsert fires with a batch (198-200)
UpsertArrives(b, msgs) ==
  /\ upserts[b] = NoBatch
  /\ \A o \in Batches : o < b => upserts[o] # NoBatch
  /\ msgs \in BatchesOf(Inbound \ arrived)
  /\ arrived' = arrived \cup {msgs[i] : i \in DOMAIN msgs}
  /\ upserts' = [upserts EXCEPT ![b] = HandlerAt(msgs)]
  /\ UNCHANGED <<stored, storeFailed, fanout, hooked, deliveryVars, hookVars,
                 viewVars, tickVars, sessVars>>

\* downloadAndSaveMedia answers; it catches its own errors
\* (mediaHandler.ts 183-186), so the message goes on to the insert
MediaAnswers(b) ==
  /\ upserts[b].pc = "media"
  /\ upserts' = [upserts EXCEPT ![b].pc = "insert"]
  /\ UNCHANGED <<arrived, stored, storeFailed, fanout, hooked, deliveryVars,
                 hookVars, viewVars, tickVars, sessVars>>

\* insertIncomingMessage throws when the insert returns an error
\* (insertIncomingMessage.ts 25-39)
InsertSwallowsError(ok) == FALSE
InsertThrows(ok) == ~ok

\* insertIncomingMessage answers (279): after a stored record the message
\* is broadcast (282-292) and sendWebhook is called without await
\* (295-306); a throw goes to the catch of handleIncomingMessage (307-309);
\* in both cases the loop goes on with the rest of the batch
InsertAnswers(b, ok) ==
  /\ upserts[b].pc = "insert"
  /\ LET m == Head(upserts[b].rest)
     IN /\ stored' = IF ok THEN stored \cup {m} ELSE stored
        /\ storeFailed' = IF ok THEN storeFailed ELSE storeFailed \cup {m}
        /\ IF InsertThrows(ok)
             THEN UNCHANGED <<fanout, hooked, webhooks>>
             ELSE /\ fanout' = fanout \cup {m}
                  /\ hooked' = hooked \cup {m}
                  /\ webhooks' = webhooks (+) SendWebhookCall("s1", m, "lookup")
        /\ upserts' = [upserts EXCEPT ![b] = HandlerAt(Tail(upserts[b].rest))]
  /\ UNCHANGED <<arrived, sessions, sockets, creds, tasks, timers, serving, booted,
                 dbRow, commands, socketCap, deleted, logoutEnded, losses, tenantUrl,
                 deliveryVars, hookVars, viewVars, tickVars>>

\* the tenants of the given sessions have a webhook URL; no sendWebhook call
\* is in progress
Tenants(urls) ==
  /\ tenantUrl = [s \in Sessions |-> s \in urls]
  /\ webhooks = EmptyBag

Start(ceilings) ==
  /\ Idle(ceilings)
  /\ StoredSessions({}, MaxSockets)
  /\ Tenants({})

Init == Start(RetryCeilings)

\* the steps of the tasks of the sessions SS over the records MM that do
\* not depend on the clock
Step(SS, MM) ==
  \/ \E m \in MM : InsertQueued(m)
  \/ \E s \in SS : ConnectionOpen(s)
  \/ \E s \in SS : ConnectionClose(s)
  \/ \E s \in SS : PollTick(s)
  \/ \E s \in SS, ok \in BOOLEAN : PollFetched(s, ok)
  \/ \E s \in SS : LidResolved(s)
  \/ \E s \in SS, ok \in BOOLEAN : DriverSendResult(s, ok)
  \/ \E s \in SS, ok \in BOOLEAN : MarkSentResult(s, ok)
  \/ \E s \in SS, r \in LookupAnswers : LookupResult(s, r)
  \/ \E s \in SS : NotifyDone(s)
  \/ \E s \in SS, ok \in BOOLEAN : MarkFailedResult(s, ok)
  \/ \E s \in SS, r \in LookupAnswers : LookupFailedResult(s, r)

\* the poll's handling of a record without recipient
NoRecipientStep(SS) ==
  \E s \in SS, ok \in BOOLEAN : PollMarkFailed(s, ok)

\* a send tick at any moment (the clock is not followed)
SendTickAnyTime(s) ==
  /\ SendTick(s)
  /\ UNCHANGED timeVars

\* Two sessions; records with a phone number, with a jid and without
\* recipient; ticks at any moment.
Next ==
  \/ Step(Sessions, {"A", "B", "D", "E"})
  \/ NoRecipientStep(Sessions)
  \/ \E s \in Sessions : SendTickAnyTime(s)

Spec == Init /\ [][Next]_vars

\* the clock advances by one step
Advance ==
  /\ now < MaxClock * TimeStep
  /\ now' = now + TimeStep
  /\ UNCHANGED <<maxRetries, sideVars, storeVars, connected, queues, processedIds,
                 pollVars, sendVars, nextSend, histVars, queueHist>>

\* the guards of processDripQueue (index.ts 98-104)
SendGuard(s) ==
  /\ ~sendingLocks[s]
  /\ ~isQueueEmpty(queues, s)
  /\ isConnected(s)

\* setInterval(() => processDripQueue(id), sendIntervalMs): the timer fires
\* no earlier than sendIntervalMs after it fired last, and the tick either
\* passes its guards or returns at once
SendTimerFires(s) ==
  /\ now >= nextSend[s]
  /\ nextSend' = [nextSend EXCEPT ![s] = now + sendIntervalMs]
  /\ UNCHANGED now
  /\ \/ SendTick(s)
     \/ /\ ~SendGuard(s)
        /\ UNCHANGED <<maxRetries, sideVars, storeVars, connected, queues,
                       processedIds, pollVars, sendVars, histVars, queueHist>>

\* One session whose send timer follows the clock.
NextTimed ==
  \/ Step({"s1"}, {"A", "B"})
  \/ Advance
  \/ SendTimerFires("s1")

SpecTimed == Init /\ [][NextTimed]_vars

\* A session that gets and stays connected, whose timers keep firing, whose
\* storage and tenant lookups answer without error, whose tenant has a
\* webhook url, and whose driver fails every send.
NextFailing ==
  \/ \E m \in {"A", "B"} : InsertQueued(m)
  \/ ConnectionOpen("s1")
  \/ PollTick("s1")
  \/ PollFetched("s1", TRUE)
  \/ SendTickAnyTime("s1")
  \/ LidResolved("s1")
  \/ DriverSendResult("s1", FALSE)
  \/ MarkFailedResult("s1", TRUE)
  \/ LookupFailedResult("s1", "url")
  \/ NotifyDone("s1")

\* the timers keep firing and every awaited call answers
SpecFailing ==
  /\ Init
  /\ [][NextFailing]_vars
  /\ WF_vars(ConnectionOpen("s1"))
  /\ WF_vars(PollTick("s1"))
  /\ WF_vars(PollFetched("s1", TRUE))
  /\ WF_vars(SendTickAnyTime("s1"))
  /\ WF_vars(LidResolved("s1"))
  /\ WF_vars(DriverSendResult("s1", FALSE))
  /\ WF_vars(MarkFailedResult("s1", TRUE))
  /\ WF_vars(LookupFailedResult("s1", "url"))
  /\ WF_vars(NotifyDone("s1"))

\* the records A, B, C of session s1 are inserted in this order
InsertInOrder(m) ==
  /\ created["s1"] = CASE m = "A" -> <<>>
                        [] m = "B" -> <<"A">>
                        [] OTHER -> <<"A", "B">>
  /\ InsertQueued(m)

\* the send tick of the scenario runs once A, B and C are in the queue or
\* have been taken from it
ScenarioTick ==
  /\ Len(admitOrder["s1"]) >= 3
  /\ SendTickAnyTime("s1")

\* the driver of the scenario fails the first attempt for A and no other
ScenarioSendResult ==
  DriverSendResult("s1", ~(flight["s1"].id = "A" /\ attempts["A"] = 1))

\* Scenario: maxRetries = 1; A, B, C are enqueued in this order for the
\* connected session s1; A's first attempt fails, every other attempt
\* succeeds; storage and tenant lookups answer without error.
NextScenario ==
  \/ \E m \in {"A", "B", "C"} : InsertInOrder(m)
  \/ ConnectionOpen("s1")
  \/ PollTick("s1")
  \/ PollFetched("s1", TRUE)
  \/ ScenarioTick
  \/ LidResolved("s1")
  \/ ScenarioSendResult
  \/ MarkSentResult("s1", TRUE)
  \/ \E r \in {"url", "nourl"} : LookupResult("s1", r)
  \/ NotifyDone("s1")

SpecScenario == Start({1}) /\ [][NextScenario]_vars

\* the state before startService, with stored sessions
Boot(rows, cap) ==
  /\ StoredSessions(rows, cap)
  /\ Idle({maxRetriesDefault})
  /\ Tenants({})

\* One session: the startup loop, the operator's requests, the driver's
\* events and the answers of the awaited calls, in any order.
NextSessions ==
  \/ \E s \in SessIds : StartupLoads(s)
  \/ ServerListens
  \/ \E s \in SessIds : PostTenantSession(s)
  \/ \E s \in SessIds : DeleteCalled(s)
  \/ \E s \in SessIds : RegenerateCalled(s)
  \/ \E t \in BagToSet(tasks), ok \in BOOLEAN : LogoutAnswers(t, ok)
  \/ \E k \in 1..MaxSockets : SocketQR(k)
  \/ \E k \in 1..MaxSockets : PairingScanned(k)
  \/ \E k \in 1..MaxSockets : SocketOpens(k)
  \/ \E k \in 1..MaxSockets, reason \in {"lost", "loggedOut"} : SocketCloses(k, reason)
  \/ \E t \in BagToSet(tasks) : CloseStatusDone(t)
  \/ \E t \in BagToSet(tasks) : ReconnectTimerFires(t)
  \/ \E t \in BagToSet(tasks) : WaitDone(t)
  \/ \E t \in BagToSet(tasks), ok \in BOOLEAN : AuthAnswers(t, ok)
  \/ \E t \in BagToSet(tasks) : VersionAnswers(t)

SpecSessions == Boot(SessIds, MaxSockets) /\ [][NextSessions]_vars

SpecDeletes == Boot(SessIds, DeleteSockets) /\ [][NextSessions]_vars

\* socket.sendMessage never answers: the promise sendMessage awaits
\* (sendMessage.ts 45) stays pending, and no timer of the tick ends the wait
DriverHangs(s) ==
  /\ sendPc[s] = "send"
  /\ sendPc' = [sendPc EXCEPT ![s] = "hung"]
  /\ UNCHANGED <<maxRetries, sideVars, storeVars, connected, queues, processedIds,
                 pollVars, sendingLocks, flight, sendRunning, timeVars, histVars,
                 queueHist>>

\* a step of the send tick of s that is in progress
SendTaskStep(s) ==
  \/ LidResolved(s)
  \/ \E ok \in BOOLEAN : DriverSendResult(s, ok)
  \/ \E ok \in BOOLEAN : MarkSentResult(s, ok)
  \/ \E r \in LookupAnswers : LookupResult(s, r)
  \/ NotifyDone(s)
  \/ \E ok \in BOOLEAN : MarkFailedResult(s, ok)
  \/ \E r \in LookupAnswers : LookupFailedResult(s, r)

\* Two sessions whose driver may leave a send without answer.
NextHangs ==
  \/ Step(Sessions, {"A", "D"})
  \/ \E s \in Sessions : SendTickAnyTime(s)
  \/ \E s \in Sessions : DriverHangs(s)

IdleNoRetry == Start({0})

SpecHangs == IdleNoRetry /\ [][NextHangs]_vars

\* DELETE /session/:sessionId (index.ts 804-816), seen from the delivery
\* tasks: sessionManager.deleteSession has removed the session from the
\* registry, so isConnected answers false; the rows of the session in
\* messages stay (the table has no foreign key to the sessions)
SessionDeleted(s) ==
  /\ ~deleted[s]
  /\ deleted' = [deleted EXCEPT ![s] = TRUE]
  /\ connected' = [connected EXCEPT ![s] = FALSE]
  /\ UNCHANGED <<maxRetries, storeVars, queues, processedIds, pollVars, sendVars,
                 timeVars, histVars, queueHist, hookVars, viewVars, tickVars,
                 inboundVars,
                 sessions, sockets, creds, tasks, timers, serving, booted, dbRow,
                 commands, socketCap, logoutEnded, losses, dispatchVars>>

\* tenantSessionService.deleteSession (index.ts 1291-1311) has deleted the
\* row of the session
RowDeleted(s) ==
  /\ deleted[s]
  /\ dbRow[s]
  /\ dbRow' = [dbRow EXCEPT ![s] = FALSE]
  /\ UNCHANGED <<deliveryVars, hookVars, viewVars, tickVars, inboundVars,
                 sessions, sockets, creds, tasks, timers, serving, booted,
                 commands, socketCap, deleted, logoutEnded, losses, dispatchVars>>

\* getTenantBySession answers null once the row is gone (index.ts 1163-1166)
RowLookup(s, r) == dbRow[s] \/ r # "url"

\* Two stored sessions that may be deleted at any moment, also while a send
\* is in flight.
NextDeleted ==
  \/ \E m \in {"A", "D"} : InsertQueued(m)
  \/ \E s \in Sessions : ConnectionOpen(s) /\ ~deleted[s]
  \/ \E s \in Sessions : PollTick(s)
  \/ \E s \in Sessions, ok \in BOOLEAN : PollFetched(s, ok)
  \/ \E s \in Sessions : SendTickAnyTime(s)
  \/ \E s \in Sessions : LidResolved(s)
  \/ \E s \in Sessions, ok \in BOOLEAN : DriverSendResult(s, ok)
  \/ \E s \in Sessions, ok \in BOOLEAN : MarkSentResult(s, ok)
  \/ \E s \in Sessions, r \in LookupAnswers : RowLookup(s, r) /\ LookupResult(s, r)
  \/ \E s \in Sessions : NotifyDone(s)
  \/ \E s \in Sessions, ok \in BOOLEAN : MarkFailedResult(s, ok)
  \/ \E s \in Sessions, r \in LookupAnswers :
        RowLookup(s, r) /\ LookupFailedResult(s, r)
  \/ \E s \in Sessions : SessionDeleted(s)
  \/ \E s \in Sessions : RowDeleted(s)

BootNoRetry ==
  /\ Idle({0})
  /\ StoredSessions(Sessions, MaxSockets)
  /\ Tenants({})
  /\ \A s \in Sessions : dbRow[s] /\ creds[s] = "paired"

SpecDeleted == BootNoRetry /\ [][NextDeleted]_vars

\* Two sessions; records with a phone number, with a jid and without
\* recipient; every awaited call of a tick may answer or throw.
NextFailures ==
  \/ Step(Sessions, {"A", "D", "E"})
  \/ NoRecipientStep(Sessions)
  \/ \E s \in Sessions : SendTickAnyTime(s)

SpecFailures == Init /\ [][NextFailures]_vars

\* The stored session, whose tenant has a webhook URL, is loaded at
\* startup; socket events, their handling and the webhooks they fire.
NextHooks ==
  \/ \E s \in SessIds : StartupLoads(s)
  \/ \E k \in 1..HookSockets : SocketQR(k)
  \/ \E k \in 1..HookSockets : PairingScanned(k)
  \/ \E k \in 1..HookSockets : SocketOpens(k)
  \/ \E k \in 1..HookSockets, reason \in {"lost", "loggedOut"} : SocketCloses(k, reason)
  \/ \E t \in BagToSet(tasks) : CloseStatusDone(t)
  \/ \E t \in BagToSet(tasks) : ReconnectTimerFires(t)
  \/ \E t \in BagToSet(tasks) : WaitDone(t)
  \/ \E t \in BagToSet(tasks), ok \in BOOLEAN : AuthAnswers(t, ok)
  \/ \E t \in BagToSet(tasks) : VersionAnswers(t)
  \/ \E h \in BagToSet(webhooks), ok \in BOOLEAN : OpenStatusDone(h, ok)
  \/ \E h \in BagToSet(webhooks), ok \in BOOLEAN : WebhookLookup(h, ok)
  \/ \E h \in BagToSet(webhooks), ok \in BOOLEAN : WebhookNotified(h, ok)

BootHooks ==
  /\ StoredSessions(SessIds, HookSockets)
  /\ Idle({maxRetriesDefault})
  /\ tenantUrl = [s \in Sessions |-> s \in SessIds]
  /\ webhooks = EmptyBag
  /\ \A s \in SessIds : dbRow[s]

SpecHooks == BootHooks /\ [][NextHooks]_vars

\* Batches of inbound messages of s1, whose tenant has a webhook URL; the
\* insert may fail for any of them.
NextInbound ==
  \/ \E b \in Batches : \E msgs \in BatchesOf(Inbound \ arrived) : UpsertArrives(b, msgs)
  \/ \E b \in Batches : MediaAnswers(b)
  \/ \E b \in Batches, ok \in BOOLEAN : InsertAnswers(b, ok)
  \/ \E h \in BagToSet(webhooks), ok \in BOOLEAN : WebhookLookup(h, ok)
  \/ \E h \in BagToSet(webhooks), ok \in BOOLEAN : WebhookNotified(h, ok)

SpecInbound == BootHooks /\ [][NextInbound]_vars

\* Scenario: the stored session is loaded at startup and its pairing code is
\* regenerated on request, once, with the socket events and the handling
\* that follow; no device is logged out.
RegenerateOnce(s) == commands = 0 /\ RegenerateCalled(s)

NextPairing ==
  \/ \E s \in SessIds : StartupLoads(s)
  \/ ServerListens
  \/ \E s \in SessIds : RegenerateOnce(s)
  \/ \E t \in BagToSet(tasks), ok \in BOOLEAN : LogoutAnswers(t, ok)
  \/ \E k \in 1..PairSockets : SocketQR(k)
  \/ \E k \in 1..PairSockets : PairingScanned(k)
  \/ \E k \in 1..PairSockets : SocketOpens(k)
  \/ \E k \in 1..PairSockets : SocketCloses(k, "lost")
  \/ \E t \in BagToSet(tasks) : ReconnectTimerFires(t)
  \/ \E t \in BagToSet(tasks) : CloseStatusDone(t)
  \/ \E t \in BagToSet(tasks) : WaitDone(t)
  \/ \E t \in BagToSet(tasks), ok \in BOOLEAN : AuthAnswers(t, ok)
  \/ \E t \in BagToSet(tasks) : VersionAnswers(t)

BootStored == Boot(SessIds, PairSockets)

SpecPairing == BootStored /\ [][NextPairing]_vars

TaskKinds == {"startup", "create", "delete", "regen", "close", "timer",
              "reconnect", "logout"}

\* no call for the session is in progress and no reconnect timer is set
Settled(s) == TasksOf(s, TaskKinds) = {}

\* the link of a socket of s1 is lost once the handling of the loss before
\* it, with its scheduled reconnection, has ended
LinkLostAgain(k) ==
  /\ k \in 1..Len(sockets)
  /\ sockets[k].sid = "s1"
  /\ Settled("s1")
  /\ SocketCloses(k, "lost")

\* the device of s2 is logged out
LoggedOut(k) ==
  /\ k \in 1..Len(sockets)
  /\ sockets[k].sid = "s2"
  /\ SocketCloses(k, "loggedOut")

\* Scenario: s1 and s2 are loaded with the credentials of paired devices;
\* the link of s1 is lost again and again without ever opening, each loss
\* followed by its reconnection; s2 is logged out; every awaited call
\* answers without error.
NextLosses ==
  \/ \E s \in Sessions : StartupLoads(s)
  \/ \E t \in BagToSet(tasks) : AuthAnswers(t, TRUE)
  \/ \E t \in BagToSet(tasks) : VersionAnswers(t)
  \/ \E k \in 1..ScenarioSockets : LinkLostAgain(k)
  \/ \E k \in 1..ScenarioSockets : LoggedOut(k)
  \/ \E t \in BagToSet(tasks) : CloseStatusDone(t)
  \/ \E t \in BagToSet(tasks) : ReconnectTimerFires(t)
  \/ \E t \in BagToSet(tasks) : WaitDone(t)
  \/ \E k \in 1..ScenarioSockets : SocketQR(k)

\* both sessions are stored with the credentials of a paired device
BootPaired ==
  /\ Boot(Sessions, ScenarioSockets)
  /\ \A s \in Sessions : creds[s] = "paired"

SpecLosses == BootPaired /\ [][NextLosses]_vars

\* a poll timer fires while the guard of its session is held: the tick
\* returns at once (index.ts 58-60)
PollTickSkipped(s) ==
  /\ ~PollGuard(s)
  /\ skipped' = skipped \cup {<<s, "polling">>}
  /\ UNCHANGED <<deliveryVars, hookVars, viewVars, sessVars, inboundVars>>

\* the first of the guards of processDripQueue that makes a tick return
\* (index.ts 98-104), "none" when the tick passes them
SendSkipReason(s) ==
  IF sendingLocks[s] THEN "sending"
  ELSE IF isQueueEmpty(queues, s) THEN "empty"
  ELSE IF ~isConnected(s) THEN "offline"
  ELSE "none"

\* a send timer fires and the tick returns at one of its guards
SendTickSkipped(s) ==
  /\ SendSkipReason(s) # "none"
  /\ skipped' = skipped \cup {<<s, SendSkipReason(s)>>}
  /\ UNCHANGED <<deliveryVars, hookVars, viewVars, sessVars, inboundVars>>

\* Two sessions whose timers fire at any moment, also while a tick of the
\* same session is in progress.
NextGuards ==
  \/ Step(Sessions, {"A", "D"})
  \/ \E s \in Sessions : SendTickAnyTime(s)
  \/ \E s \in Sessions : PollTickSkipped(s)
  \/ \E s \in Sessions : sendingLocks[s] /\ SendTickSkipped(s)

SpecGuards == Start({0}) /\ [][NextGuards]_vars

\* One session whose connection comes and goes and whose send timer keeps
\* firing.
NextDrip ==
  \/ Step({"s1"}, {"A", "B"})
  \/ SendTickAnyTime("s1")
  \/ SendTickSkipped("s1")

\* the send timer keeps firing and every awaited call of a send tick answers
SpecDripFair ==
  /\ Init
  /\ [][NextDrip]_vars
  /\ WF_vars(SendTickAnyTime("s1"))
  /\ WF_vars(LidResolved("s1"))
  /\ WF_vars(\E ok \in BOOLEAN : DriverSendResult("s1", ok))
  /\ WF_vars(\E ok \in BOOLEAN : MarkSentResult("s1", ok))
  /\ WF_vars(\E r \in LookupAnswers : LookupResult("s1", r))
  /\ WF_vars(NotifyDone("s1"))
  /\ WF_vars(\E ok \in BOOLEAN : MarkFailedResult("s1", ok))
  /\ WF_vars(\E r \in LookupAnswers : LookupFailedResult("s1", r))

\* One call of notifyTenant, by the service or with any arguments, and the
\* answers of the tenant's endpoint.
NextWebhook ==
  \/ \E type \in EventTypes : ServiceNotifies(type)
  \/ \E url \in Urls, type \in EventTypes, secret \in Secrets,
        maxR \in 0..MaxAttemptsArg : NotifyCalled(url, type, secret, maxR)
  \/ SleepDone
  \/ \E r \in FetchResults : FetchAnswers(r)

SpecWebhook == Start({maxRetriesDefault}) /\ [][NextWebhook]_vars

\* every sleep ends (setTimeout) and every fetch answers or times out
\* (AbortSignal.timeout)
SpecWebhookFair ==
  /\ SpecWebhook
  /\ WF_vars(SleepDone)
  /\ WF_vars(\E r \in FetchResults : FetchAnswers(r))

\* Viewers open and close streams, streams break, the session manager
\* broadcasts, and the process is told to shut down.
NextViewers ==
  \/ \E v \in Viewers : StreamOpened(v)
  \/ \E v \in Viewers : WriteBreaks(v)
  \/ \E v \in Viewers : StreamClosed(v)
  \/ \E s \in Sessions, e \in Events : broadcastMessageToSSE(s, e)
  \/ disconnectAllSSEClients

SpecViewers == Start({maxRetriesDefault}) /\ [][NextViewers]_vars

\* ------------------------------------------------------------------------
\* Properties
\* ------------------------------------------------------------------------

Last(q) == q[Len(q)]

\* the step in which the driver send of the message in flight of s fails
SendFails(s) ==
  /\ sendPc[s] = "send"
  /\ sendPc'[s] \notin {"send", "markSent"}

\* a record that the poll can admit
Sendable(m) == status[m] # "NONE" /\ RecipientOf(m) # "none"

InFlight(m) == \E s \in Sessions : flight[s].id = m

\* C1: when a delivery attempt fails and the message's retry counter is
\* below maxRetries, the tick leaves the message at the tail of the
\* session's queue with its counter incremented by one.
C1_RetryRequeuedAtTail ==
  [][\A s \in Sessions :
       (SendFails(s) /\ flight[s].retries < maxRetries)
         => /\ queues'[s] # <<>>
            /\ Last(queues'[s]) = [id |-> flight[s].id,
                                   retries |-> flight[s].retries + 1]]_vars

\* C2: with the session connected, the ticks firing and every delivery
\* attempt failing, a queued message is eventually marked failed in storage
\* and its message.failed webhook is handed to notifyTenant.
C2_FailingMessageEventuallyFailed ==
  \A m \in {"A", "B"} :
    (status[m] = "QUEUED")
      ~> (/\ m \in markedFailed
          /\ sendPc[SessionOf(m)] = "notifyFailed"
          /\ flight[SessionOf(m)].id = m)

\* C3: the number of delivery attempts handed to the driver for a message id
\* never exceeds maxRetries + 1.
C3_AttemptsBounded ==
  \A m \in Messages : attempts[m] <= maxRetries + 1

\* C3 witness: a message has used up maxRetries + 1 attempts and its last
\* attempt has failed terminally.
C3_Witness ==
  \E m \in Messages :
    /\ attempts[m] = maxRetries + 1
    /\ m \in markedFailed
    /\ ~InFlight(m)

\* C4: no message is both marked sent and marked failed in storage.
C4_NeverSentAndFailed ==
  markedSent \cap markedFailed = {}

\* C5: a message id occurs at most once in a session's queue, and enqueuing
\* an id that is in the queue changes nothing.
C5_QueueHasNoDuplicates ==
  /\ \A s \in Sessions : \A i, j \in 1..Len(queues[s]) :
       queues[s][i].id = queues[s][j].id => i = j
  /\ \A m \in Messages :
       InQueue(queues[SessionOf(m)], m)
         => Enqueue(queues, processedIds, SessionOf(m),
                    [id |-> m, retries |-> 0]) = queues

\* C5 witness: an id sits in its queue after a second enqueue of it was
\* refused, next to another queued id.
C5_Witness ==
  \E m \in Messages :
    /\ m \in rejected
    /\ InQueue(queues[SessionOf(m)], m)
    /\ Len(queues[SessionOf(m)]) = 2

\* C6: once markMessageSent or markMessageFailed has been called for a
\* message (whether or not the storage update succeeded), the message is not
\* handed to the driver again.
C6_NoRedeliveryAfterTerminal ==
  [][\A m \in Messages : m \in markCalled => attempts'[m] = attempts[m]]_vars

\* C6 witness: a message was sent, its status update failed so storage still
\* reports it queued, its tick is over, and a poll of its session is fetching
\* the queued records again.
C6_Witness ==
  \E m \in Messages :
    /\ m \in markCalled
    /\ attempts[m] = 1
    /\ status[m] = "QUEUED"
    /\ ~InFlight(m)
    /\ pollPc[SessionOf(m)] = "fetch"
    /\ m \in {getQueuedMessages(SessionOf(m))[i] :
                i \in 1..Len(getQueuedMessages(SessionOf(m)))}

\* C7: enqueue is a no-op exactly when the id was delivered or terminally
\* failed or is in the session's queue; otherwise (also after a failed
\* attempt that is not terminal) the message is appended. Stated for the
\* messages that no send tick holds.
C7_EnqueueNoOpExactly ==
  \A m \in Messages :
    (Sendable(m) /\ ~InFlight(m))
      => (~Admits(queues, processedIds, SessionOf(m), [id |-> m, retries |-> 0])
            <=> (m \in markCalled \/ InQueue(queues[SessionOf(m)], m)))

\* C8: two consecutive sends of a session are handed to the driver at least
\* sendIntervalMs apart (up to a tolerance of less than one clock step).
C8_SendsSpacedByInterval ==
  \A s \in Sessions :
    sendTimes[s][1] # NoTime
      => sendTimes[s][2] - sendTimes[s][1] > sendIntervalMs - TimeStep

\* C9: in the scenario, once the scheduler has taken B and C through and has
\* nothing queued or in flight, the messages were completed in the order
\* B, C, A, all three are marked sent, and 4 attempts were made.
C9_ScenarioCompletesBCA ==
  (/\ attempts["B"] >= 1
   /\ attempts["C"] >= 1
   /\ queues["s1"] = <<>>
   /\ sendPc["s1"] = "idle")
    => /\ completed["s1"] = <<"B", "C", "A">>
       /\ {"A", "B", "C"} \subseteq markedSent
       /\ attempts["A"] + attempts["B"] + attempts["C"] = 4

\* C10: dequeue hands out the head of the session's queue, whose order is
\* the order of admission, leaves the other sessions' queues alone, and
\* returns nothing from an empty queue.
C10_DequeueOldestFirst ==
  /\ [](\A s \in Sessions :
          /\ Len(queues[s]) <= Len(admitOrder[s])
          /\ QueueIds(queues[s])
               = SubSeq(admitOrder[s],
                        Len(admitOrder[s]) - Len(queues[s]) + 1,
                        Len(admitOrder[s]))
          /\ isQueueEmpty(queues, s)
               => /\ DequeueMsg(queues, s) = NoMsg
                  /\ DequeueRest(queues, s) = queues)
  /\ [][\A s \in Sessions :
          (~sendingLocks[s] /\ sendingLocks'[s])
            => /\ flight'[s] = Head(queues[s])
               /\ queues'[s] = Tail(queues[s])
               /\ \A t \in Sessions \ {s} : queues'[t] = queues[t]]_vars

\* C10 witness: of two admitted messages of a session the first is the one
\* dequeued and the second is still queued, while another session's queue
\* holds a message.
C10_Witness ==
  \E s, t \in Sessions :
    /\ s # t
    /\ Len(admitOrder[s]) = 2
    /\ flight[s].id = admitOrder[s][1]
    /\ QueueIds(queues[s]) = <<admitOrder[s][2]>>
    /\ queues[t] # <<>>

\* a stored record with neither jid nor phone_number
NoRecipient(m) == RecipientOf(m) = "none"

\* C11: a stored record without recipient is never admitted to a queue and
\* never handed to the driver; a poll that finds it calls markMessageFailed
\* for it, and the storage update it applies sets the status FAILED with the
\* reason 'No recipient identifier provided'.
C11_NoRecipientNeverQueued ==
  /\ [](\A m \in Messages : NoRecipient(m) =>
          /\ \A s \in Sessions :
               /\ ~InQueue(queues[s], m)
               /\ flight[s].id # m
               /\ \A i \in 1..Len(admitOrder[s]) : admitOrder[s][i] # m
               /\ (pollList[s] # <<>> /\ Head(pollList[s]) = m)
                    => (pollPc[s] = "markFailed" /\ m \in markCalled)
          /\ attempts[m] = 0
          /\ m \in markedFailed
               <=> (status[m] = "FAILED" /\ failReason[m] = NoRecipientReason))
  /\ [][\A s \in Sessions :
          \* a fetch that returns the record leaves the poll at its update
          /\ (/\ pollPc[s] = "fetch"
              /\ pollPc'[s] = "idle"
              /\ \E i \in 1..Len(getQueuedMessages(s)) :
                   NoRecipient(getQueuedMessages(s)[i]))
               => UNCHANGED <<queues, admitOrder>>
          \* the update ends with the record FAILED or with the storage error
          /\ (pollPc[s] = "markFailed" /\ pollPc'[s] # pollPc[s])
               => \/ status'[Head(pollList[s])] = "FAILED"
                  \/ (pollPc'[s] = "idle" /\ UNCHANGED <<status, queues>>)]_vars

\* C11 witness: the poll has marked the record without recipient failed and
\* has gone on to admit a later record of the same snapshot, which was sent.
C11_Witness ==
  \E m, n \in Messages :
    /\ NoRecipient(m)
    /\ m \in markedFailed
    /\ failReason[m] = NoRecipientReason
    /\ attempts[m] = 0
    /\ SessionOf(n) = SessionOf(m)
    /\ \E i, j \in 1..Len(created[SessionOf(m)]) :
         i < j /\ created[SessionOf(m)][i] = m /\ created[SessionOf(m)][j] = n
    /\ n \in markedSent

\* the call was made with a webhook url
HasUrl == hookArgs.webhookUrl # NoUrl

\* C12: one call of notifyTenant makes no HTTP attempt when no url is given
\* (and ends without error), and otherwise, for maxRetries >= 1, between 1
\* and maxRetries attempts: a non-success status or a network error leads
\* to the next attempt while attempts are left, the first success ends the
\* call, and no attempt follows the maxRetries-th failure.
C12_AttemptCount ==
  hookPc # "idle" =>
    LET n == Len(httpCalls)
        max == hookArgs.maxRetries
    IN /\ ~HasUrl => (n = 0 /\ hookPc = "done" /\ hookResult = "no url")
       /\ n <= max
       /\ (HasUrl /\ max >= 1) => n >= 1
       /\ Len(answers) \in {n, n - 1}
       /\ \A i \in 1..Len(answers) :
            /\ answers[i] = "ok"
                 => (i = Len(answers) /\ hookPc = "done" /\ n = i)
            /\ (answers[i] # "ok" /\ i < max)
                 => (n >= i + 1 \/ (hookPc = "sleep" /\ attempt = i))
       /\ (hookPc = "done" /\ HasUrl /\ max >= 1)
            => /\ Len(answers) = n
               /\ (answers[n] = "ok" \/ n = max)
       /\ hookResult # "raised"

\* C12 witness: three attempts, failed by a non-success status and by a
\* network error, have used up maxRetries = 3 and the call is over.
C12_Witness ==
  /\ hookPc = "done"
  /\ hookArgs.maxRetries = 3
  /\ Len(httpCalls) = 3
  /\ answers = <<"status", "error", "status">>

\* C13: for every maxRetries and every attempt the call makes, the wait
\* before the attempt with index k is the k-th entry of the schedule
\* [0, 5s, 30s, 300s]: the first attempt is immediate and the retry with
\* index k sleeps delays[k].
C13_WaitsFollowSchedule ==
  /\ Len(httpCalls) >= 1 => httpCalls[1].attempt = 1
  /\ Len(waits) \in {Len(httpCalls) - 1, Len(httpCalls)}
  /\ \A k \in 1..Len(waits) :
       /\ k + 1 \in DOMAIN delays
       /\ waits[k] = delays[k + 1]

\* C14: with the default maxRetries, a call whose attempts all fail has
\* waited 5 s, then 30 s, then 5 min between its attempts when it gives up.
C14_DefaultRetrySchedule ==
  (/\ hookArgs.maxRetries = notifyMaxRetries
   /\ hookPc = "done"
   /\ hookResult = "dropped")
    => waits = <<5000, 30000, 300000>>

\* C15: a call with a url and a secret whose first attempt is answered by a
\* non-success status and whose second attempt succeeds makes exactly two
\* HTTP calls; the k-th carries X-Webhook-Attempt k, and both carry the same
\* body and the same X-Webhook-Signature, the HMAC of the body under the
\* secret.
C15_SecondAttemptSucceeds ==
  (/\ HasUrl
   /\ hookArgs.secret # NoSecret
   /\ answers = <<"status", "ok">>)
    => /\ hookPc = "done"
       /\ hookResult = "delivered"
       /\ Len(httpCalls) = 2
       /\ \A k \in 1..2 :
            /\ httpCalls[k].attempt = k
            /\ httpCalls[k].body = stringify(hookArgs.event)
            /\ httpCalls[k].signature
                 = generateSignature(httpCalls[k].body, hookArgs.secret)
            /\ httpCalls[k].signature # NoSignature
       /\ httpCalls[1].body = httpCalls[2].body
       /\ httpCalls[1].signature = httpCalls[2].signature

\* C15 witness: the message.sent event was delivered with a secret at the
\* second attempt, after a non-success status.
C15_Witness ==
  /\ hookArgs.event.type = "message.sent"
  /\ HasUrl
  /\ hookArgs.secret = "k1"
  /\ answers = <<"status", "ok">>
  /\ hookPc = "done"

\* C16: every HTTP call of a notification that the service emits carries an
\* X-Webhook-Signature header.
C16_ServiceNotificationsSigned ==
  hookArgs.by = "service"
    => \A k \in 1..Len(httpCalls) : httpCalls[k].signature # NoSignature

\* C17: a call of notifyTenant never raises to its caller; after maxRetries
\* failed attempts the event is dropped and the call returns; and every
\* call returns.
C17_NeverRaisesAlwaysReturns ==
  /\ [](hookResult # "raised")
  /\ []((/\ hookArgs.maxRetries >= 1
         /\ Len(answers) = hookArgs.maxRetries
         /\ \A k \in 1..Len(answers) : answers[k] # "ok")
          => (hookPc = "done" /\ hookResult = "dropped"))
  /\ (hookPc # "idle") ~> (hookPc = "done")

\* C17 witness: the call has returned after its last attempt got a
\* non-success status, the one before a network error.
C17_Witness ==
  /\ hookPc = "done"
  /\ hookResult = "dropped"
  /\ answers = <<"error", "status">>

\* the viewers registered for a session
Registered(map, sid) == Range(ClientsOf(map, sid))

\* C18: broadcastMessageToSSE(sessionId, event) writes the event to every
\* viewer registered for the session; a viewer whose write fails, and no
\* other, is removed from the set; every other registered viewer receives
\* the event; other sessions' viewers are not touched; and no error leaves
\* the function.
C18_BroadcastReachesEveryViewer ==
  [][\A s \in Sessions, e \in Events :
       broadcastMessageToSSE(s, e)
         => LET before == Registered(sseClients, s)
                failing == {v \in before : WriteThrows(v)}
            IN /\ \A v \in before \ failing : e \in received'[v]
               /\ \A v \in Viewers \ (before \ failing) :
                    received'[v] = received[v]
               /\ Registered(sseClients', s) = before \ failing
               /\ \A u \in Sessions \ {s} :
                    ClientsOf(sseClients', u) = ClientsOf(sseClients, u)
               /\ ~sseError']_vars

\* C18 witness: of three viewers registered for one session the one whose
\* stream is broken was removed by a broadcast and the other two have
\* received the event.
C18_Witness ==
  /\ conn = [v \in Viewers |->
               CASE v = "v2" -> "broken" [] v = "v4" -> "new" [] OTHER -> "open"]
  /\ Registered(sseClients, "s1") = {"v1", "v3"}
  /\ "e1" \in received["v1"] \cap received["v3"]
  /\ received["v2"] = {"connected"}

\* C19: no session id is mapped to an empty set of viewers.
C19_NoEmptyViewerSet ==
  \A s \in DOMAIN sseClients : Len(sseClients[s]) > 0

\* C20: disconnectAllSSEClients writes the shutdown frame to every viewer
\* registered for any session, a failing write does not keep the frame from
\* the other viewers, no error leaves the function, and afterwards no viewer
\* is registered for any session.
C20_ShutdownNotifiesAll ==
  [][disconnectAllSSEClients
       => LET before == UNION {Registered(sseClients, s) : s \in Sessions}
          IN /\ \A v \in before :
                  ~WriteThrows(v) => "shutdown" \in received'[v]
             /\ \A v \in Viewers \ before : received'[v] = received[v]
             /\ DOMAIN sseClients' = {}
             /\ ~sseError']_vars

\* C20 witness: after the shutdown no viewer is registered, the viewers of
\* both sessions whose streams worked have the shutdown frame, and the viewer
\* whose stream was broken has not.
C20_Witness ==
  /\ DOMAIN sseClients = {}
  /\ conn = [v \in Viewers |-> IF v = "v2" THEN "broken" ELSE "ended"]
  /\ \A v \in {"v1", "v3", "v4"} : "shutdown" \in received[v]
  /\ received["v2"] = {"connected"}

\* C29: at most one poll tick and at most one send tick of a session are in
\* progress at any time; a tick that finds its guard held returns without
\* touching the queue and without releasing the guard; and a guard held for
\* one session does not keep a tick of another session from starting.
C29_SingleFlightPerSession ==
  /\ [](\A s \in Sessions : pollRunning[s] <= 1 /\ sendRunning[s] <= 1)
  /\ [][\A s \in Sessions :
          (PollTickSkipped(s) \/ (sendingLocks[s] /\ SendTickSkipped(s)))
            => UNCHANGED <<queues, processedIds, pollingLocks, sendingLocks>>]_vars
  /\ [](\A s, t \in Sessions :
          (s # t /\ pollingLocks[s] /\ ~pollingLocks[t]) => ENABLED PollTick(t))
  /\ [](\A s, t \in Sessions :
          (s # t /\ sendingLocks[s] /\ SendGuard(t)) => ENABLED SendTick(t))

\* ticks of s1 have returned at both held guards while ticks of s2 were
\* in progress
C29_Witness ==
  /\ {<<"s1", "polling">>, <<"s1", "sending">>} \subseteq skipped
  /\ pollingLocks["s1"] /\ sendingLocks["s1"]
  /\ pollRunning["s2"] = 1 /\ sendRunning["s2"] = 1

\* a message waits in the queue of its session
Waiting(m) == \E i \in 1..Len(queues[SessionOf(m)]) : queues[SessionOf(m)][i].id = m

AwaitingPairing(s) == Has(sessions, s) /\ ~sockets[sessions[s]].paired

\* C21: once the handling of a logout (or of the reconnect ceiling) has
\* ended, with no operator request made and no call or timer of the session
\* pending, the session is in the map again, also when creating the
\* replacement failed.
C21_LogoutSelfHeals ==
  \A s \in SessIds :
    (logoutEnded[s] /\ commands = 0 /\ Settled(s)) => Has(sessions, s)

\* C22: after six recoverable losses in a row, each followed by its
\* reconnection, the session awaits pairing: its credentials are destroyed,
\* its socket is an unpaired one and its reconnect counter is 0.
C22_SixLossesEndInPairing ==
  (losses["s1"] >= 6 /\ Settled("s1")) =>
    /\ AwaitingPairing("s1")
    /\ creds["s1"] = "none"
    /\ sockets[sessions["s1"]].reconnectAttempts = 0

C24_DeletedIsTerminal ==
  \A s \in SessIds : deleted[s] => ~Has(sessions, s)

\* C25: when regenerateQR returns, the session is in the map with a socket
\* other than the one it had when the command was called, made without
\* credentials of a paired device.
C25_RegenerateReplacesSocket ==
  [][\A t \in BagToSet(tasks) :
       (/\ t.kind = "regen"
        /\ \/ VersionAnswers(t)
           \/ (t.pc = "wait" /\ Has(sessions, t.sid) /\ WaitDone(t)))
         => /\ AwaitingPairing(t.sid)'
            /\ sessions'[t.sid] # t.ref]_vars

\* C26: at most one socket of a session has been opened and not closed.
C26_OneSocketPerSession ==
  \A s \in SessIds : Cardinality(LiveSockets(s)) <= 1

\* the calls that handle a driver event or an operator command for s
Transitions(s) ==
  LET ts == TasksOf(s, TaskKinds \ {"timer"})
  IN [t \in ts |-> CopiesIn(t, tasks)]

\* C27: at most one driver event or operator command of a session is being
\* handled at a time.
C27_OneTransitionAtATime ==
  \A s \in SessIds : BagCardinality(Transitions(s)) <= 1

\* C28: every session in the map whose link is open has its poll and send
\* intervals set.
C28_ConnectedSessionsAreServed ==
  \A s \in SessIds :
    (Has(sessions, s) /\ sockets[sessions[s]].connected) => s \in timers

\* the SessionData the registry holds for session s
Current(s) == sockets[sessions[s]]

Backoff(n) ==
  IF reconnectBaseMs * 2^n < reconnectCapMs THEN reconnectBaseMs * 2^n
                                            ELSE reconnectCapMs

\* C36: a reconnect is scheduled after min(base * 2^attempt, cap) ms, attempt
\* being the session's reconnect counter; no delay exceeds the cap and no
\* counter exceeds the ceiling of 5
C36_BackoffIsCapped ==
  /\ [](/\ \A k \in 1..Len(sockets) :
             sockets[k].reconnectAttempts <= maxReconnectAttempts
        /\ \A t \in BagToSet(tasks) :
             t.kind = "timer" => t.delay <= reconnectCapMs
        /\ \A n \in 0..maxReconnectAttempts :
             /\ ReconnectDelay(n) = Backoff(n)
             /\ ReconnectDelay(n) <= reconnectCapMs)
  /\ [][\A c \in BagToSet(tasks) :
          (/\ c.kind = "close"
           /\ c.ref # NoSocket
           /\ CloseStatusDone(c)
           /\ sockets'[c.ref].reconnectAttempts # sockets[c.ref].reconnectAttempts)
            => \E t \in BagToSet(tasks') :
                 /\ t.kind = "timer"
                 /\ t.sid = c.sid
                 /\ t.delay = Backoff(sockets'[c.ref].reconnectAttempts)]_vars

\* a reconnect is scheduled with the delay of the session's counter
C36_Witness ==
  \E t \in BagToSet(tasks) :
    /\ t.kind = "timer"
    /\ \E k \in 1..Len(sockets) :
         /\ sockets[k].sid = t.sid
         /\ sockets[k].reconnectAttempts >= 1
         /\ t.delay = Backoff(sockets[k].reconnectAttempts)

\* C37: the reconnect counter of a session at rest is the number of link
\* losses in a row since its last link success: a reconnect does not reset it
C37_CounterSurvivesReconnect ==
  \A s \in Sessions :
    (Has(sessions, s) /\ Settled(s) /\ losses[s] <= maxReconnectAttempts)
      => Current(s).reconnectAttempts = losses[s]

\* C40: the state of a session follows the Connection it holds now: it is
\* connected only while that Connection's link is established, and the
\* pairing code it holds was issued by that Connection
C40_StaleEventsIgnored ==
  \A s \in SessIds :
    Has(sessions, s)
      => /\ Current(s).connected => Current(s).link = "open"
         /\ Current(s).qrCode \in {NoSocket, sessions[s]}

\* C33: while the message-sent or message-failed webhook of a message is
\* being delivered, a send tick of the same session with a message queued
\* and the session connected is not skipped
C33_WebhookNeverDelaysSend ==
  \A s \in Sessions :
    (/\ sendPc[s] \in {"notify", "notifyFailed"}
     /\ ~isQueueEmpty(queues, s)
     /\ isConnected(s))
      => /\ SendSkipReason(s) = "none"
         /\ ENABLED SendTick(s)

\* C31: a failure inside a poll tick or a send tick ends the tick: the
\* guard of a task at rest is released, a throwing call ends the tick with
\* its guard released (a failed send may first mark the record failed), the
\* step changes nothing of the other session's tasks, and the next tick of
\* the session can run
C31_TickFailuresContained ==
  /\ [](\A s \in Sessions :
          /\ pollPc[s] = "idle" => (~pollingLocks[s] /\ ENABLED PollTick(s))
          /\ sendPc[s] = "idle" => ~sendingLocks[s]
          /\ (sendPc[s] = "idle" /\ SendSkipReason(s) = "none"
                /\ RecipientOf(Head(queues[s]).id) # "none")
               => ENABLED SendTick(s))
  /\ [][\A s \in Sessions :
          /\ (PollFetched(s, FALSE) \/ PollMarkFailed(s, FALSE))
               => (pollPc'[s] = "idle" /\ ~pollingLocks'[s])
          /\ MarkFailedResult(s, FALSE)
               => (sendPc'[s] = "idle" /\ ~sendingLocks'[s])
          /\ (DriverSendResult(s, FALSE) \/ MarkSentResult(s, FALSE))
               => \/ sendPc'[s] = "idle" /\ ~sendingLocks'[s]
                  \/ sendPc'[s] = "markFailed"
          /\ (\E ok \in BOOLEAN : \/ PollFetched(s, ok) \/ PollMarkFailed(s, ok)
                                  \/ DriverSendResult(s, ok)
                                  \/ MarkSentResult(s, ok)
                                  \/ MarkFailedResult(s, ok))
               => \A o \in Sessions \ {s} :
                    /\ pollPc'[o] = pollPc[o] /\ pollingLocks'[o] = pollingLocks[o]
                    /\ sendPc'[o] = sendPc[o] /\ sendingLocks'[o] = sendingLocks[o]
                    /\ queues'[o] = queues[o]]_vars

\* a send of a record failed, the tick has ended with the guard released
\* and the record is not sent
C31_Witness ==
  \E m \in Messages :
    /\ attempts[m] >= 1
    /\ status[m] # "SENT"
    /\ sendPc[SessionOf(m)] = "idle"
    /\ ~sendingLocks[SessionOf(m)]
    /\ flight[SessionOf(m)] = NoMsg

\* C32: every outbound call of a send tick ends, by its answer or by its
\* timeout: a send tick that holds the guard always has a step it can take
\* towards releasing it
C32_SendsAreBounded ==
  \A s \in Sessions : sendingLocks[s] => ENABLED SendTaskStep(s)

\* C38: once a session is deleted, the result of a send of it that was in
\* flight is discarded: no record of the session is updated to sent or
\* failed and no message-sent or message-failed webhook is started for it
C38_DeletedSendDiscarded ==
  [][\A m \in Messages :
       deleted[SessionOf(m)]
         => /\ status'[m] \in {"SENT", "FAILED"} => status'[m] = status[m]
            /\ sendPc'[SessionOf(m)] \in {"notify", "notifyFailed"}
                 => sendPc[SessionOf(m)] \in {"notify", "notifyFailed"}]_vars

\* a step of a sendWebhook call in progress
WebhookStep ==
  \E h \in BagToSet(webhooks), ok \in BOOLEAN :
    OpenStatusDone(h, ok) \/ WebhookLookup(h, ok) \/ WebhookNotified(h, ok)

\* C34: the webhooks of pairing-code, connect and disconnect events do not
\* hold the transition: the step that fires the webhook also applies the
\* state change (code stored, connected flag set, reconnect scheduled or
\* logout handling started), a webhook in progress leaves the handling of a
\* loss and the reconnect timer free to go on, and no step of a webhook,
\* failing or not, changes the state of the session
C34_WebhooksNeverBlock ==
  /\ [](\A h \in BagToSet(webhooks) : \A t \in BagToSet(tasks) :
          /\ (t.sid = h.sid /\ t.kind = "close") => ENABLED CloseStatusDone(t)
          /\ (t.sid = h.sid /\ t.kind = "timer") => ENABLED ReconnectTimerFires(t))
  /\ [][/\ WebhookStep
            => UNCHANGED <<sessions, sockets, creds, tasks, timers, losses>>
        /\ \A k \in 1..Len(sockets) :
             LET s == sockets[k].sid
             IN /\ (SocketQR(k) /\ Has(sessions, s))
                     => (Current(s)'.qrCode = k /\ webhooks' # webhooks)
                /\ (SocketOpens(k) /\ Has(sessions, s))
                     => (Current(s)'.connected /\ webhooks' # webhooks)
        /\ \A c \in BagToSet(tasks) :
             (c.kind = "close" /\ CloseStatusDone(c) /\ Has(sessions, c.sid))
               => /\ webhooks' # webhooks
                  /\ \E t \in BagToSet(tasks') :
                       t.sid = c.sid /\ t.kind \in {"timer", "logout"}]_vars

\* the session has been given a new Connection while the webhook of the
\* loss of the one before is still being delivered
C34_Witness ==
  \E h \in BagToSet(webhooks) :
    /\ h.ev = "disconnected"
    /\ h.pc = "notify"
    /\ Has(sessions, h.sid)
    /\ sessions[h.sid] > 1
    /\ Current(h.sid).link = "connecting"

\* C39: an inbound message is broadcast, and its message-received webhook
\* fired, only once it is stored; a message whose insert failed is neither
\* broadcast nor reported; and after the insert of a message has answered,
\* stored or not, the run goes on with the rest of its batch
C39_StoreBeforeFanout ==
  /\ [](/\ fanout \subseteq stored
        /\ hooked \subseteq stored
        /\ \A h \in BagToSet(webhooks) : h.ev \in Inbound => h.ev \in stored
        /\ storeFailed \cap (fanout \cup hooked) = {}
        /\ \A b \in Batches :
             upserts[b].pc = "insert" => \A ok \in BOOLEAN : ENABLED InsertAnswers(b, ok))
  /\ [][\A b \in Batches : \A ok \in BOOLEAN :
          InsertAnswers(b, ok)
            => /\ upserts'[b] = HandlerAt(Tail(upserts[b].rest))
               /\ (ok <=> Head(upserts[b].rest) \in fanout')
               /\ (ok <=> Head(upserts[b].rest) \in hooked')]_vars

\* the insert of a message failed, without broadcast or webhook, another
\* message is stored and broadcast, and every handler run has ended
C39_Witness ==
  /\ storeFailed # {}
  /\ fanout # {}
  /\ \A b \in Batches : upserts[b] = NoBatch
  /\ Cardinality(arrived) = MaxBatchLen


====
